---- MODULE Spec2Model ----
(***************************************************************************)
(* vee: rendering a flat Go struct as an HTML form (Render) and binding a  *)
(* submitted form back into the struct (Bind).                             *)
(*                                                                         *)
(* Strings that are formatted, parsed or escaped are sequences of          *)
(* one-character strings, so that every conversion is computed.  Field     *)
(* names and external names are only compared and looked up; they are      *)
(* atoms.  A duration counts ticks of 100 microseconds (the units keep     *)
(* their ratios 1 : 1000 : 60000 : 3600000); a float64 counts hundredths.  *)
(***************************************************************************)
EXTENDS Integers, Sequences, FiniteSets, TLC

VARIABLES
    typ,      \* the struct type: a sequence of field declarations
    rec,      \* the struct value: the current value of every field
    nextId,   \* the next fresh pointer identity
    calls,    \* number of Bind calls made so far
    op,       \* the last operation: "none", "Bind", "Render", "Submit", "New"
    pre,      \* the struct value before the last operation
    shown,    \* the struct value the last Render was given
    input,    \* the form data given to the last Bind
    ret,      \* what the last Bind returned: its error and the field it returned at
    rret,     \* what the last Render returned: its error and the document
    form,     \* the form data of the last submission of a rendered document
    given,    \* the options given to the last Render or ConsolidateOptions
    merged,   \* what the last ConsolidateOptions returned
    arg,      \* the shapes of the arguments of the last Bind or Render
    panicked, \* the last Bind or Render panicked instead of returning
    run,      \* the calls that run concurrently, each with its own locals
    veeTag,   \* the vee tag given to parseVeeTag
    parsed    \* what the last parseVeeTag returned

\* What the calls on the one struct leave alone.
aux == <<merged, run, veeTag, parsed>>

vars == <<typ, rec, nextId, calls, op, pre, shown, input, ret, rret, form,
          given, merged, arg, panicked, run, veeTag, parsed>>

----------------------------------------------------------------------------
(* Characters, decimal integers: fmt %d, strconv.ParseInt, strconv.Atoi    *)

DigitChars == <<"0", "1", "2", "3", "4", "5", "6", "7", "8", "9">>

IsDigit(c) == \E d \in 1..10 : DigitChars[d] = c

DigitVal(c) == (CHOOSE d \in 1..10 : DigitChars[d] = c) - 1

AllDigits(s) == \A i \in 1..Len(s) : IsDigit(s[i])

RECURSIVE NatStr(_)
NatStr(n) ==
    IF n < 10 THEN <<DigitChars[n + 1]>>
    ELSE NatStr(n \div 10) \o <<DigitChars[(n % 10) + 1]>>

RECURSIVE NatVal(_)
NatVal(s) ==
    IF Len(s) = 0 THEN 0
    ELSE 10 * NatVal(SubSeq(s, 1, Len(s) - 1)) + DigitVal(s[Len(s)])

RECURSIVE Pow10(_)
Pow10(k) == IF k <= 0 THEN 1 ELSE 10 * Pow10(k - 1)

Pad2(n) == <<DigitChars[((n \div 10) % 10) + 1], DigitChars[(n % 10) + 1]>>

Pad4(n) == Pad2(n \div 100) \o Pad2(n % 100)

\* fmt.Sprintf("%d", n)
FormatInt(n) == IF n < 0 THEN <<"-">> \o NatStr(0 - n) ELSE NatStr(n)

\* strconv.ParseInt(s, 10, 64) and strconv.Atoi(s): an optional sign, then
\* decimal digits only, at least one.
ParseInt(s) ==
    LET signed == Len(s) > 0 /\ s[1] \in {"+", "-"}
        digits == IF signed THEN Tail(s) ELSE s
    IN  IF Len(digits) = 0 \/ ~AllDigits(digits)
        THEN [ok |-> FALSE, val |-> 0]
        ELSE [ok |-> TRUE,
              val |-> IF signed /\ s[1] = "-" THEN 0 - NatVal(digits) ELSE NatVal(digits)]

----------------------------------------------------------------------------
(* float64: fmt %g and strconv.ParseFloat                                  *)

FNum(h) == [k |-> "num", h |-> h]
FNaN == [k |-> "nan", h |-> 0]
FPosInf == [k |-> "+inf", h |-> 0]
FNegInf == [k |-> "-inf", h |-> 0]

RECURSIVE StripZeros(_)
StripZeros(s) ==
    IF Len(s) > 1 /\ s[Len(s)] = "0" THEN StripZeros(SubSeq(s, 1, Len(s) - 1)) ELSE s

\* fmt.Sprintf("%g", f): the shortest decimal that reads back as f; the
\* exponent form when the decimal exponent is >= 6 (or < -4, which no
\* multiple of a hundredth has).
FormatG(f) ==
    IF f.k = "nan" THEN <<"N", "a", "N">>
    ELSE IF f.k = "+inf" THEN <<"+", "I", "n", "f">>
    ELSE IF f.k = "-inf" THEN <<"-", "I", "n", "f">>
    ELSE
      LET a    == IF f.h < 0 THEN 0 - f.h ELSE f.h
          sign == IF f.h < 0 THEN <<"-">> ELSE <<>>
          ip   == a \div 100
          fp   == a % 100
          ipS  == NatStr(ip)
          frac == IF fp = 0 THEN <<>>
                  ELSE IF fp % 10 = 0 THEN <<".", DigitChars[(fp \div 10) + 1]>>
                  ELSE <<".">> \o Pad2(fp)
          sig  == StripZeros(IF fp = 0 THEN ipS ELSE ipS \o Tail(frac))
      IN  IF ip >= 1000000
          THEN sign \o <<sig[1]>>
                    \o (IF Len(sig) > 1 THEN <<".">> \o Tail(sig) ELSE <<>>)
                    \o <<"e", "+">> \o Pad2(Len(ipS) - 1)
          ELSE sign \o ipS \o frac

\* The index of the first occurrence of c in s, 0 when there is none.
IndexOf(s, c) ==
    IF \E i \in 1..Len(s) : s[i] = c
    THEN CHOOSE i \in 1..Len(s) : s[i] = c /\ \A j \in 1..(i - 1) : s[j] # c
    ELSE 0

\* strconv.ParseFloat(s, 64) on the decimal forms: NaN, Inf, and
\* [sign] digits [. digits] [e [sign] digits] with at least one mantissa
\* digit.  Exact on the decimals that are multiples of a hundredth.
ParseFloat(s) ==
    IF s = <<"N", "a", "N">> THEN [ok |-> TRUE, val |-> FNaN]
    ELSE IF s \in {<<"+", "I", "n", "f">>, <<"I", "n", "f">>} THEN [ok |-> TRUE, val |-> FPosInf]
    ELSE IF s = <<"-", "I", "n", "f">> THEN [ok |-> TRUE, val |-> FNegInf]
    ELSE
      LET signed == Len(s) > 0 /\ s[1] \in {"+", "-"}
          neg    == signed /\ s[1] = "-"
          body   == IF signed THEN Tail(s) ELSE s
          ePos   == IndexOf(body, "e")
          mant   == IF ePos = 0 THEN body ELSE SubSeq(body, 1, ePos - 1)
          expS   == IF ePos = 0 THEN <<>> ELSE SubSeq(body, ePos + 1, Len(body))
          dot    == IndexOf(mant, ".")
          intS   == IF dot = 0 THEN mant ELSE SubSeq(mant, 1, dot - 1)
          fracS  == IF dot = 0 THEN <<>> ELSE SubSeq(mant, dot + 1, Len(mant))
          expR   == ParseInt(expS)
          expOk  == ePos = 0 \/ expR.ok
          e      == IF ePos = 0 THEN 0 ELSE expR.val
          ok     == /\ AllDigits(intS) /\ AllDigits(fracS)
                    /\ Len(intS) + Len(fracS) > 0
                    /\ expOk
          m      == NatVal(intS \o fracS)
          shift  == e - Len(fracS) + 2
          mag    == IF shift >= 0 THEN m * Pow10(shift) ELSE m \div Pow10(0 - shift)
      IN  IF ~ok THEN [ok |-> FALSE, val |-> FNum(0)]
          ELSE [ok |-> TRUE, val |-> FNum(IF neg THEN 0 - mag ELSE mag)]

----------------------------------------------------------------------------
(* time.Time: Format and Parse with the three layouts of the form controls *)

\* A time.Time: the wall clock in its location, and the location's offset
\* from UTC in minutes.
Time(y, mo, d, h, mi, sec, off) ==
    [y |-> y, mo |-> mo, d |-> d, h |-> h, mi |-> mi, s |-> sec, off |-> off]

\* time.Time{}: January 1, year 1, 00:00:00 UTC.
ZeroTime == Time(1, 1, 1, 0, 0, 0, 0)

IsZero_never(t) == FALSE

\* Time.IsZero: the instant is January 1, year 1, 00:00:00 UTC.
IsZero(t) ==
    /\ t.y = 1 /\ t.mo = 1 /\ t.s = 0
    /\ (t.d - 1) * 1440 + t.h * 60 + t.mi - t.off = 0

\* The layout of an input type: "2006-01-02", "15:04", "2006-01-02T15:04".
FormatDate(t) == Pad4(t.y) \o <<"-">> \o Pad2(t.mo) \o <<"-">> \o Pad2(t.d)
FormatClock(t) == Pad2(t.h) \o <<":">> \o Pad2(t.mi)

\* Time.Format(layout): the wall clock in the time's own location; what the
\* layout does not name (seconds, the zone) is not written.
TimeFormat(inputType, t) ==
    IF inputType = "date" THEN FormatDate(t)
    ELSE IF inputType = "time" THEN FormatClock(t)
    ELSE FormatDate(t) \o <<"T">> \o FormatClock(t)

IsLeap(y) == (y % 4 = 0 /\ y % 100 # 0) \/ y % 400 = 0

DaysIn(mo, y) ==
    IF mo = 2 THEN (IF IsLeap(y) THEN 29 ELSE 28)
    ELSE IF mo \in {4, 6, 9, 11} THEN 30 ELSE 31

\* "2006-01-02": four digits, two digits, two digits, all in range.
ParseDate(s) ==
    LET shape == /\ Len(s) = 10
                 /\ s[5] = "-" /\ s[8] = "-"
                 /\ \A i \in {1, 2, 3, 4, 6, 7, 9, 10} : IsDigit(s[i])
        y  == NatVal(SubSeq(s, 1, 4))
        mo == NatVal(SubSeq(s, 6, 7))
        d  == NatVal(SubSeq(s, 9, 10))
    IN  IF shape /\ mo \in 1..12 /\ d >= 1 /\ d <= DaysIn(mo, y)
        THEN [ok |-> TRUE, y |-> y, mo |-> mo, d |-> d]
        ELSE [ok |-> FALSE, y |-> 0, mo |-> 1, d |-> 1]

\* "15:04": an hour of one or two digits, a colon, a minute of two digits.
ParseClock(s) ==
    LET hl    == IF Len(s) >= 2 /\ IsDigit(s[2]) THEN 2 ELSE 1
        shape == /\ Len(s) = hl + 3
                 /\ IsDigit(s[1])
                 /\ s[hl + 1] = ":"
                 /\ IsDigit(s[hl + 2]) /\ IsDigit(s[hl + 3])
        h  == NatVal(SubSeq(s, 1, hl))
        mi == NatVal(SubSeq(s, hl + 2, hl + 3))
    IN  IF shape /\ h < 24 /\ mi < 60
        THEN [ok |-> TRUE, h |-> h, mi |-> mi]
        ELSE [ok |-> FALSE, h |-> 0, mi |-> 0]

\* time.Parse(layout, s): the result is in UTC; a field the layout does not
\* name is zero (year 0, January 1, 00:00:00).
TimeParse(inputType, s) ==
    LET dS == IF inputType = "time" THEN <<>>
              ELSE SubSeq(s, 1, IF Len(s) < 10 THEN Len(s) ELSE 10)
        cS == IF inputType = "time" THEN s
              ELSE IF inputType = "date" THEN <<>>
              ELSE SubSeq(s, 12, Len(s))
        dR == ParseDate(dS)
        cR == ParseClock(cS)
        ok == IF inputType = "date" THEN Len(s) = 10 /\ dR.ok
              ELSE IF inputType = "time" THEN cR.ok
              ELSE Len(s) >= 11 /\ s[11] = "T" /\ dR.ok /\ cR.ok
    IN  IF ~ok THEN [ok |-> FALSE, val |-> ZeroTime]
        ELSE IF inputType = "date" THEN [ok |-> TRUE, val |-> Time(dR.y, dR.mo, dR.d, 0, 0, 0, 0)]
        ELSE IF inputType = "time" THEN [ok |-> TRUE, val |-> Time(0, 1, 1, cR.h, cR.mi, 0, 0)]
        ELSE [ok |-> TRUE, val |-> Time(dR.y, dR.mo, dR.d, cR.h, cR.mi, 0, 0)]

----------------------------------------------------------------------------
(* time.Duration, in ticks of 100 microseconds                             *)

Millisecond == 10
Second == 10000
Minute == 600000
Hour == 36000000

UnitOf(units) ==
    IF units = "ms" THEN Millisecond
    ELSE IF units = "m" THEN Minute
    ELSE IF units = "h" THEN Hour
    ELSE Second

GoDiv_floor(a, b) == a \div b

\* Go's integer division: the quotient is truncated toward zero.
GoDiv(a, b) == IF a < 0 THEN 0 - ((0 - a) \div b) ELSE a \div b

----------------------------------------------------------------------------
(* Markup text                                                             *)

RECURSIVE ReplaceAll(_, _, _)
ReplaceAll(s, c, r) ==
    IF Len(s) = 0 THEN <<>>
    ELSE (IF Head(s) = c THEN r ELSE <<Head(s)>>) \o ReplaceAll(Tail(s), c, r)

\* A Render that writes a string into the markup as it is.
escapeHTML_raw(s) == s

escapeHTML(s) ==
    LET s1 == ReplaceAll(s, "&", <<"&", "a", "m", "p", ";">>)
        s2 == ReplaceAll(s1, "<", <<"&", "l", "t", ";">>)
        s3 == ReplaceAll(s2, ">", <<"&", "g", "t", ";">>)
    IN  ReplaceAll(s3, "\"", <<"&", "q", "u", "o", "t", ";">>)

HasPrefix(s, p) == Len(s) >= Len(p) /\ SubSeq(s, 1, Len(p)) = p

\* What a browser makes of an attribute value: the character references
\* are decoded, left to right.
RECURSIVE DecodeEntities(_)
DecodeEntities(s) ==
    IF Len(s) = 0 THEN <<>>
    ELSE IF HasPrefix(s, <<"&", "a", "m", "p", ";">>)
         THEN <<"&">> \o DecodeEntities(SubSeq(s, 6, Len(s)))
    ELSE IF HasPrefix(s, <<"&", "l", "t", ";">>)
         THEN <<"<">> \o DecodeEntities(SubSeq(s, 5, Len(s)))
    ELSE IF HasPrefix(s, <<"&", "g", "t", ";">>)
         THEN <<">">> \o DecodeEntities(SubSeq(s, 5, Len(s)))
    ELSE IF HasPrefix(s, <<"&", "q", "u", "o", "t", ";">>)
         THEN <<"\"">> \o DecodeEntities(SubSeq(s, 7, Len(s)))
    ELSE <<Head(s)>> \o DecodeEntities(Tail(s))

----------------------------------------------------------------------------
(* Struct types, field values, errors                                      *)

\* FieldConfig (what parseVeeTag returns): the external name, the skip,
\* nolabel and hidden flags and the attribute map.
FieldConfig(name, skip, hidden, attrs) ==
    [Name |-> name, Skip |-> skip, NoLabel |-> FALSE, Hidden |-> hidden,
     Attributes |-> attrs]

NoAttrs == [a \in {} |-> ""]
Attr(k, v) == [a \in {k} |-> v]

\* A reflect.StructField: the declared name as its base and its suffix
\* ("Choices", "Chosen" or none), the type as the kind behind an optional
\* pointer, and the parsed vee tag.  Kinds: "string", "int", "int64",
\* "float64", "bool", "time", "duration", "ints" ([]int), "strings"
\* ([]string), "int32" (a kind neither Render nor Bind has a case for).
StructField(base, suffix, kind, ptr, cfg) ==
    [base |-> base, suffix |-> suffix, kind |-> kind, ptr |-> ptr,
     exported |-> TRUE, css |-> <<>>, cfg |-> cfg]

\* The zero value of a kind.
ZeroOf(kind) ==
    CASE kind = "string"   -> <<>>
      [] kind = "int"      -> 0
      [] kind = "int64"    -> 0
      [] kind = "int32"    -> 0
      [] kind = "float64"  -> FNum(0)
      [] kind = "bool"     -> FALSE
      [] kind = "time"     -> ZeroTime
      [] kind = "duration" -> 0
      [] kind = "ints"     -> <<>>
      [] kind = "strings"  -> <<>>

\* A pointer: nil, or an allocation with its identity and its value.
NilPtr(kind) == [nil |-> TRUE, id |-> 0, v |-> ZeroOf(kind)]
Ptr(id, v) == [nil |-> FALSE, id |-> id, v |-> v]

\* The zero value of a field.
ZeroField(f) == IF f.ptr THEN NilPtr(f.kind) ELSE ZeroOf(f.kind)

\* Error messages are sequences of tokens: the literal text of the format
\* string, and what each verb prints.
Tok(t, str, sfx, n, cs) == [t |-> t, s |-> str, x |-> sfx, n |-> n, cs |-> cs]
Lit(str) == Tok("lit", str, "", 0, <<>>)
Num(n) == Tok("num", "", "", n, <<>>)
Raw(cs) == Tok("raw", "", "", 0, cs)
Ext(name) == Tok("ext", name, "", 0, <<>>)
Fld(base, suffix) == Tok("field", base, suffix, 0, <<>>)
Typ(f) == Tok("type", f.kind, IF f.ptr THEN "*" ELSE "", 0, <<>>)

NoErr == <<>>

\* strings.Contains on messages: part occurs in msg as consecutive tokens.
Contains(msg, part) ==
    \E i \in 0..(Len(msg) - Len(part)) : SubSeq(msg, i + 1, i + Len(part)) = part

\* The permutations of a finite set, as sequences: the orders in which a
\* range over a Go map may visit its keys.
RECURSIVE Perms(_)
Perms(S) ==
    IF S = {} THEN {<<>>}
    ELSE UNION {{<<x>> \o p : p \in Perms(S \ {x})} : x \in S}

----------------------------------------------------------------------------
(* validateChoicesChosen                                                   *)

\* First pass: the base names of the exported fields ending in Choices,
\* and of those ending in Chosen.
choicesFields(t) == {t[i].base : i \in {j \in 1..Len(t) : t[j].exported /\ t[j].suffix = "Choices"}}
chosenFields(t) == {t[i].base : i \in {j \in 1..Len(t) : t[j].exported /\ t[j].suffix = "Chosen"}}

\* The index of the field with a declared name (Value.FieldByName).
FieldIndex(t, base, suffix) ==
    CHOOSE i \in 1..Len(t) : t[i].base = base /\ t[i].suffix = suffix

\* The chosen indices of a pair, as a sequence.
ChosenIndices(multi, chosenVal) == IF multi THEN chosenVal ELSE <<chosenVal>>

\* The first chosen index outside [0, n), 0 when there is none (as a
\* position in the sequence).
FirstOutOfRange(indices, n) ==
    IF \E k \in 1..Len(indices) : indices[k] < 0 \/ indices[k] >= n
    THEN CHOOSE k \in 1..Len(indices) :
            /\ indices[k] < 0 \/ indices[k] >= n
            /\ \A j \in 1..(k - 1) : ~(indices[j] < 0 \/ indices[j] >= n)
    ELSE 0

\* The body of the loop over choicesFields for one base name: the error it
\* returns, NoErr when the pair is valid.
validatePair(t, val, base) ==
    LET hasChosen == base \in chosenFields(t)
        ci   == FieldIndex(t, base, "Choices")
        hi   == FieldIndex(t, base, "Chosen")
        cf   == t[ci]
        hf   == t[hi]
        multi == hf.kind = "ints"
        n    == Len(val[ci])
        idx  == ChosenIndices(multi, val[hi])
        bad  == FirstOutOfRange(idx, n)
    IN  IF ~hasChosen
        THEN <<Lit("vee:"), Lit("field"), Fld(base, "Choices"), Lit("requires corresponding"),
               Fld(base, "Chosen"), Lit("field")>>
        ELSE IF cf.ptr \/ cf.kind \notin {"strings", "ints"}
        THEN <<Lit("vee:"), Lit("field"), Fld(base, "Choices"), Lit("must be a slice type, got"),
               Typ(cf)>>
        ELSE IF hf.ptr \/ hf.kind \notin {"int", "ints"}
        THEN <<Lit("vee:"), Lit("field"), Fld(base, "Chosen"), Lit("must be int or []int, got"),
               Typ(hf)>>
        ELSE IF n = 0
        THEN <<Lit("vee:"), Lit("field"), Fld(base, "Choices"), Lit("cannot be empty")>>
        ELSE IF bad # 0
        THEN <<Lit("vee:"), Lit("field"), Fld(base, "Chosen"), Lit("index"), Num(idx[bad]),
               Lit("out of range for"), Num(n), Lit("choices")>>
        ELSE NoErr

\* A ChoicesChosenPair.
ChoicesChosenPair(t, val, base) ==
    LET ci == FieldIndex(t, base, "Choices")
        hi == FieldIndex(t, base, "Chosen")
    IN  [ChoicesField |-> ci, ChosenField |-> hi,
         ChoicesValue |-> val[ci], ChosenValue |-> val[hi],
         IsMultiSelect |-> t[hi].kind = "ints"]

\* The loop over choicesFields visiting the base names in the order ord:
\* the first error met.
RECURSIVE validateLoop(_, _, _)
validateLoop(t, val, ord) ==
    IF Len(ord) = 0 THEN NoErr
    ELSE LET e == validatePair(t, val, Head(ord))
         IN  IF e # NoErr THEN e ELSE validateLoop(t, val, Tail(ord))

\* A validation that never looks for a Chosen field without Choices.
orphanLoop_none(t, ord) == NoErr

\* The loop over chosenFields in the order ord: the first orphaned Chosen.
RECURSIVE orphanLoop(_, _)
orphanLoop(t, ord) ==
    IF Len(ord) = 0 THEN NoErr
    ELSE IF Head(ord) \in choicesFields(t) THEN orphanLoop(t, Tail(ord))
    ELSE <<Lit("vee:"), Lit("field"), Fld(Head(ord), "Chosen"), Lit("requires corresponding"),
           Fld(Head(ord), "Choices"), Lit("field")>>

\* validateChoicesChosen with the two map ranges visiting in the orders
\* ord1 and ord2: the pairs and the error.
validateIn(t, val, ord1, ord2) ==
    LET e1 == validateLoop(t, val, ord1)
        e2 == IF e1 # NoErr THEN e1 ELSE orphanLoop(t, ord2)
    IN  [err |-> e2,
         pairs |-> IF e2 # NoErr THEN [b \in {} |-> 0]
                   ELSE [b \in choicesFields(t) |-> ChoicesChosenPair(t, val, b)]]

\* validateChoicesChosen: every result the call can return.  Go visits the
\* keys of a map in an order that changes from one range to the next.
validateChoicesChosen(t, val) ==
    {validateIn(t, val, ord1, ord2) :
        ord1 \in Perms(choicesFields(t)), ord2 \in Perms(chosenFields(t))}

----------------------------------------------------------------------------
(* Bind                                                                    *)

\* formValues, exists := values[config.Name]
Exists(values, name) == name \in DOMAIN values
FormValues(values, name) == IF Exists(values, name) THEN values[name] ELSE <<>>

\* !exists || len(formValues) == 0: there is nothing to bind.
NoFormData(values, name) == ~Exists(values, name) \/ Len(FormValues(values, name)) = 0

\* A Bind that resets a field without form data to its zero value.
Untouched_reset(f, cur) == ZeroField(f)

\* What a field holds after Bind found no form data for it: the continue
\* leaves it as it was.
Untouched(f, cur) == cur

\* fieldVal.Set(...): the value itself, or for a pointer field the address
\* of a fresh variable holding it.  The result is the field's new value
\* and the next fresh identity.
Stored(f, v, id) ==
    IF f.ptr THEN [err |-> NoErr, val |-> Ptr(id, v), id |-> id + 1]
    ELSE [err |-> NoErr, val |-> v, id |-> id]

Kept(f, cur, id) == [err |-> NoErr, val |-> Untouched(f, cur), id |-> id]
\* A Bind that stores the zero value of a string it could not parse.
Failed_zero(err, f, cur, id) == [err |-> err, val |-> ZeroField(f), id |-> id]

\* return fmt.Errorf(...) before the field is set: the field is as it was.
Failed(err, f, cur, id) == [err |-> err, val |-> cur, id |-> id]

ParseError(formValue, what, name) ==
    <<Lit("vee:"), Lit("cannot parse"), Raw(formValue), Lit("as"), Lit(what),
      Lit("for field"), Ext(name), Lit(": %w")>>

\* The input type of a time field: the type attribute when it is one of
\* the three, datetime-local otherwise.
TimeInputType(cfg) ==
    IF "type" \in DOMAIN cfg.Attributes
       /\ cfg.Attributes["type"] \in {"date", "datetime-local", "time"}
    THEN cfg.Attributes["type"]
    ELSE "datetime-local"

\* The units of a duration field: the units attribute when it is one of
\* the four, seconds otherwise.
DurationUnits(cfg) ==
    IF "units" \in DOMAIN cfg.Attributes
       /\ cfg.Attributes["units"] \in {"ms", "s", "m", "h"}
    THEN cfg.Attributes["units"]
    ELSE "s"

\* time.Duration(floatVal) * unit.  The conversion drops the fraction of
\* the number before the multiplication.  A number that is not finite has
\* no int64: the conversion yields the smallest int64 or, on a build whose
\* conversion saturates (sat), 0 for NaN and the nearest bound for an
\* infinity; the product then wraps to 0, or to -unit from the largest
\* int64.
ScaledDuration(floatVal, unit, sat) ==
    IF floatVal.k = "num" THEN GoDiv(floatVal.h, 100) * unit
    ELSE IF sat /\ floatVal.k = "+inf" THEN 0 - unit
    ELSE 0

\* A Bind that reads the checkbox's string: "false" is false.
BoolVal_parse(exists, formValues) ==
    exists /\ Len(formValues) > 0 /\ formValues[1] # <<"f", "a", "l", "s", "e">>

\* boolVal := exists && len(formValues) > 0
BoolVal(exists, formValues) == exists /\ Len(formValues) > 0

\* The time.Time branch for one field.
bindTime(values, f, cur, id) ==
    LET formValue == FormValues(values, f.cfg.Name)[1]
        p == TimeParse(TimeInputType(f.cfg), formValue)
    IN  IF NoFormData(values, f.cfg.Name) THEN Kept(f, cur, id)
        ELSE IF ~p.ok THEN Failed(ParseError(formValue, "time", f.cfg.Name), f, cur, id)
        ELSE Stored(f, p.val, id)

\* The time.Duration branch for one field.
bindDuration(values, f, cur, id, sat) ==
    LET formValue == FormValues(values, f.cfg.Name)[1]
        p == ParseFloat(formValue)
    IN  IF NoFormData(values, f.cfg.Name) THEN Kept(f, cur, id)
        ELSE IF ~p.ok THEN Failed(ParseError(formValue, "duration", f.cfg.Name), f, cur, id)
        ELSE Stored(f, ScaledDuration(p.val, UnitOf(DurationUnits(f.cfg)), sat), id)

\* A Bind that leaves a bool alone when there is no form data for it.
bindBool_keep(values, f, cur, id) ==
    IF NoFormData(values, f.cfg.Name) THEN Kept(f, cur, id) ELSE Stored(f, TRUE, id)

\* The reflect.Bool case: bound whether or not there is form data.
bindBool(values, f, cur, id) ==
    Stored(f, BoolVal(Exists(values, f.cfg.Name), FormValues(values, f.cfg.Name)), id)

\* The default case: string, int and int64, float64; a field of any other
\* kind is left as it is.
bindDefault(values, f, cur, id) ==
    LET formValue == FormValues(values, f.cfg.Name)[1]
        pi == ParseInt(formValue)
        pf == ParseFloat(formValue)
    IN  IF NoFormData(values, f.cfg.Name) THEN Kept(f, cur, id)
        ELSE IF f.kind = "string" THEN Stored(f, formValue, id)
        ELSE IF f.kind \in {"int", "int64"}
        THEN IF ~pi.ok THEN Failed(ParseError(formValue, "integer", f.cfg.Name), f, cur, id)
             ELSE Stored(f, pi.val, id)
        ELSE IF f.kind = "float64"
        THEN IF ~pf.ok THEN Failed(ParseError(formValue, "float", f.cfg.Name), f, cur, id)
             ELSE Stored(f, pf.val, id)
        ELSE [err |-> NoErr, val |-> cur, id |-> id]

\* A check of the upper bound alone.
IndexInRange_upper(index, n) == index < n

IndexInRange_lower(index, n) == index >= 0

\* index < 0 || index >= len(choices) is the rejection: an index is
\* accepted when it lies in [0, n).
IndexInRange(index, n) == ~(index < 0 \/ index >= n)

\* The loop of bindMultiValueField over the supplied strings from position
\* k on, with the indices validated so far.
RECURSIVE collectIndices(_, _, _, _, _)
collectIndices(formValues, k, n, name, indices) ==
    IF k > Len(formValues) THEN [err |-> NoErr, indices |-> indices]
    ELSE LET p == ParseInt(formValues[k])
         IN  IF ~p.ok
             THEN [err |-> <<Lit("vee:"), Lit("invalid index"), Raw(formValues[k]),
                             Lit("for multi-select field"), Ext(name)>>,
                   indices |-> indices]
             ELSE IF ~IndexInRange(p.val, n)
             THEN [err |-> <<Lit("vee:"), Lit("index"), Num(p.val), Lit("out of range for"),
                             Num(n), Lit("choices"), Lit("in field"), Ext(name)>>,
                   indices |-> indices]
             ELSE collectIndices(formValues, k + 1, n, name, Append(indices, p.val))

\* A Bind that stores the indices it validated before the offending one.
SetSlice_partial(cur, r) == r.indices

\* A Bind that appends the indices to the slice the field holds.
SetSlice_append(cur, r) == IF r.err = NoErr THEN cur \o r.indices ELSE cur

\* What a []int Chosen holds after the loop: the slice is made and set
\* only when the loop has returned no error.
SetSlice(cur, r) == IF r.err = NoErr THEN r.indices ELSE cur

\* bindMultiValueField: the error and the value of the Chosen field after
\* the call.
bindMultiValueField(values, cur, pair, cfg) ==
    LET formValues == FormValues(values, cfg.Name)
        n == Len(pair.ChoicesValue)
        r == collectIndices(formValues, 1, n, cfg.Name, <<>>)
        p == ParseInt(formValues[1])
    IN  IF NoFormData(values, cfg.Name) THEN [err |-> NoErr, val |-> cur]
        ELSE IF pair.IsMultiSelect THEN [err |-> r.err, val |-> SetSlice(cur, r)]
        ELSE IF ~p.ok
        THEN [err |-> <<Lit("vee:"), Lit("invalid index"), Raw(formValues[1]),
                        Lit("for single-select field"), Ext(cfg.Name)>>,
              val |-> cur]
        ELSE IF ~IndexInRange(p.val, n)
        THEN [err |-> <<Lit("vee:"), Lit("index"), Num(p.val), Lit("out of range for"),
                        Num(n), Lit("choices"), Lit("in field"), Ext(cfg.Name)>>,
              val |-> cur]
        ELSE [err |-> NoErr, val |-> p.val]

\* Whether the loop of Bind passes over a field without binding it:
\* unexported, tagged "-", or a Choices field.
BindSkips(f) == ~f.exported \/ f.cfg.Skip \/ f.suffix = "Choices"

\* A Bind that stores the supplied strings in a []string it passes over.
Skipped_written(values, f, cur, id) ==
    [err |-> NoErr,
     val |-> IF f.kind = "strings" /\ ~NoFormData(values, f.cfg.Name)
             THEN FormValues(values, f.cfg.Name) ELSE cur,
     id |-> id]

\* continue, for a field the loop passes over: the field is as it was,
\* whatever the form data holds under its name.
Skipped(values, f, cur, id) == [err |-> NoErr, val |-> cur, id |-> id]

\* The body of the loop of Bind for one field: the error, the field's
\* value afterwards and the next fresh identity.
bindField(values, f, cur, id, pairs, sat) ==
    IF BindSkips(f) THEN Skipped(values, f, cur, id)
    ELSE IF f.suffix = "Chosen" /\ f.base \in DOMAIN pairs
    THEN LET m == bindMultiValueField(values, cur, pairs[f.base], f.cfg)
         IN  [err |-> m.err, val |-> m.val, id |-> id]
    ELSE IF f.kind = "time" THEN bindTime(values, f, cur, id)
    ELSE IF f.kind = "duration" THEN bindDuration(values, f, cur, id, sat)
    ELSE IF f.kind = "bool" THEN bindBool(values, f, cur, id)
    ELSE bindDefault(values, f, cur, id)

\* A Bind that goes on with the fields after the one that failed and
\* returns the error at the end.
Returned_late(b, r, i, rest) == [err |-> b.err, rec |-> rest.rec, id |-> rest.id, at |-> i]

\* return err in the loop of Bind at field i: the call ends there; b is
\* what the field's body returned, r the struct at that point, rest what
\* the loop would have done with the remaining fields.
Returned(b, r, i, rest) == [err |-> b.err, rec |-> r, id |-> b.id, at |-> i]

\* The one element of a singleton.
The(S) == CHOOSE x \in S : TRUE

\* The loop of Bind from field i on, and what it does once the body for
\* field i has returned b: an error returns at once, with the fields bound
\* so far as they are.
RECURSIVE bindLoop(_, _, _, _, _, _, _)
bindNext(i, values, t, r, b, pairs, sat) ==
    IF b.err = NoErr
    THEN bindLoop(i + 1, values, t, [r EXCEPT ![i] = b.val], b.id, pairs, sat)
    ELSE Returned(b, [r EXCEPT ![i] = b.val], i,
                  bindLoop(i + 1, values, t, [r EXCEPT ![i] = b.val], b.id, pairs, sat))

bindLoop(i, values, t, r, id, pairs, sat) ==
    IF i > Len(t) THEN [err |-> NoErr, rec |-> r, id |-> id, at |-> 0]
    ELSE The({bindNext(i, values, t, r, b, pairs, sat) :
                b \in {bindField(values, t[i], r[i], id, pairs, sat)}})

\* Bind(values, &r) of a struct of type t, given what validateChoicesChosen
\* returned: the error, the struct afterwards, the next fresh identity and
\* the field at which the loop returned (0: none).
Bind_unvalidated(values, t, r, id, v, sat) == bindLoop(1, values, t, r, id, v.pairs, sat)

Bind(values, t, r, id, v, sat) ==
    IF v.err # NoErr THEN [err |-> v.err, rec |-> r, id |-> id, at |-> 0]
    ELSE bindLoop(1, values, t, r, id, v.pairs, sat)

----------------------------------------------------------------------------
(* RenderOption                                                            *)

RenderOption(css, id, formCss, method, action) ==
    [DefaultInputCSS |-> css, FormID |-> id, FormCSS |-> formCss,
     FormMethod |-> method, FormAction |-> action]

apply_overwrite(option, other) == other

\* option.apply(other): every non-empty field of other replaces the field.
apply(option, other) ==
    [DefaultInputCSS |-> IF other.DefaultInputCSS # <<>> THEN other.DefaultInputCSS
                         ELSE option.DefaultInputCSS,
     FormID     |-> IF other.FormID # <<>> THEN other.FormID ELSE option.FormID,
     FormCSS    |-> IF other.FormCSS # <<>> THEN other.FormCSS ELSE option.FormCSS,
     FormMethod |-> IF other.FormMethod # <<>> THEN other.FormMethod ELSE option.FormMethod,
     FormAction |-> IF other.FormAction # <<>> THEN other.FormAction ELSE option.FormAction]

RECURSIVE applyAll(_, _)
applyAll(target, opts) ==
    IF Len(opts) = 0 THEN target ELSE applyAll(apply(target, Head(opts)), Tail(opts))

ConsolidateOptions(opts) == applyAll(RenderOption(<<>>, <<>>, <<>>, <<>>, <<>>), opts)

----------------------------------------------------------------------------
(* Render                                                                  *)

\* The text of an external name or of an attribute of a vee tag, as a
\* string of Go: its characters when one of them is a character of markup,
\* else the whole of it as one piece.
Chars(a) ==
    CASE a = "" -> <<>>
      [] a = "t<b" -> <<"t", "<", "b">>
      [] a = "a>b" -> <<"a", ">", "b">>
      [] a = "p\"q" -> <<"p", "\"", "q">>
      [] a = "i&d" -> <<"i", "&", "d">>
      [] a = "<1" -> <<"<", "1">>
      [] OTHER -> <<a>>

\* The document is the sequence of its elements.  An element: its tag, its
\* type attribute, the external name of the field it belongs to, whether
\* it has a value attribute and the attribute's text as written, whether
\* it is checked / selected (for a select: multiple), its class attribute
\* as written, its text content as written (for the form tag: its method),
\* its id attribute as written (form tag) and, in the order written, its
\* name, for, id, min, max, step, placeholder, required, readonly and
\* disabled attributes with their text as written.
El(tag, type, name, has, value, on, class, text) ==
    [tag |-> tag, type |-> type, name |-> name, has |-> has, value |-> value,
     on |-> on, class |-> class, text |-> text, id |-> <<>>, attrs |-> <<>>]

Input(type, name, has, value, on, class) == El("input", type, name, has, value, on, class, <<>>)

\* fmt.Sprintf(` k="%s"`, v)
KV(k, v) == [k |-> k, v |-> v]

\* An attribute of the tag written when the tag has it, escaped.
attrOf(cfg, k) ==
    IF k \in DOMAIN cfg.Attributes
    THEN <<KV(k, escapeHTML(Chars(cfg.Attributes[k])))>> ELSE <<>>

\* A boolean attribute of the tag, written as a bare token.
flagOf(cfg, k) == IF k \in DOMAIN cfg.Attributes THEN <<KV(k, <<>>)>> ELSE <<>>

\* addUniversalAttributes: id (custom, else the external name),
\* placeholder, required, readonly, disabled.
addUniversalAttributes(cfg) ==
    <<KV("id", escapeHTML(Chars(IF "id" \in DOMAIN cfg.Attributes
                                THEN cfg.Attributes["id"] ELSE cfg.Name)))>>
    \o attrOf(cfg, "placeholder")
    \o flagOf(cfg, "required") \o flagOf(cfg, "readonly") \o flagOf(cfg, "disabled")

\* fieldNameToLabel: a space before every upper-case letter but the first.
\* A declared name is its base and its suffix, each one capitalised word.
fieldNameToLabel(f) == <<f.base>> \o (IF f.suffix = "" THEN <<>> ELSE <<" ", f.suffix>>)

\* generateLabel: the label attribute, else the text derived from the
\* declared name.
generateLabel(cfg, f) ==
    IF "label" \in DOMAIN cfg.Attributes THEN Chars(cfg.Attributes["label"])
    ELSE fieldNameToLabel(f)

\* renderLabel: nothing with nolabel, else one label for the field.
renderLabel(cfg, f) ==
    IF cfg.NoLabel THEN <<>>
    ELSE <<[El("label", "", cfg.Name, FALSE, <<>>, FALSE, <<>>, escapeHTML(generateLabel(cfg, f)))
            EXCEPT !.attrs = <<KV("for", escapeHTML(Chars(IF "id" \in DOMAIN cfg.Attributes
                                                          THEN cfg.Attributes["id"]
                                                          ELSE cfg.Name)))>>]>>

\* The hidden-field restrictions Render checks in its first pass, for one
\* field: the error, NoErr when the field passes.
hiddenCheck(f) ==
    IF ~f.exported \/ f.cfg.Skip \/ ~f.cfg.Hidden THEN NoErr
    ELSE IF f.ptr
    THEN <<Lit("vee:"), Lit("hidden attribute not supported for pointer type"),
           Fld(f.base, f.suffix)>>
    ELSE IF f.suffix \in {"Choices", "Chosen"}
    THEN <<Lit("vee:"), Lit("hidden attribute not supported for multi-value field"),
           Fld(f.base, f.suffix)>>
    ELSE IF f.kind \in {"ints", "strings"}
    THEN <<Lit("vee:"), Lit("hidden attribute not supported for slice/array type"),
           Fld(f.base, f.suffix)>>
    ELSE NoErr

\* The first pass of Render from field i on: the first error.
RECURSIVE hiddenPass(_, _)
hiddenPass(t, i) ==
    IF i > Len(t) THEN NoErr
    ELSE IF hiddenCheck(t[i]) # NoErr THEN hiddenCheck(t[i])
    ELSE hiddenPass(t, i + 1)

\* The class of a field's controls: the css tag, else the default.
cssClassOf(f, options) ==
    IF f.css # <<>> THEN f.css ELSE options.DefaultInputCSS

\* The value a pointer field renders: the zero value for nil.
actualVal(f, val) == IF f.ptr THEN (IF val.nil THEN ZeroOf(f.kind) ELSE val.v) ELSE val

\* Whether a time or duration control may carry a value at all:
\* !isPointer || !fieldVal.IsNil()
NotNil(f, val) == ~f.ptr \/ ~val.nil

\* The selected indices of a pair.
selectedIndices(pair) == ChosenIndices(pair.IsMultiSelect, pair.ChosenValue)

IsSelected_first(i, indices) == Len(indices) > 0 /\ indices[1] = i

IsSelected(i, indices) == \E k \in 1..Len(indices) : indices[k] = i

\* The input type of a Chosen field: select unless the type attribute is
\* radio or checkbox.
MultiInputType(cfg) ==
    IF "type" \in DOMAIN cfg.Attributes
       /\ cfg.Attributes["type"] \in {"select", "radio", "checkbox"}
    THEN cfg.Attributes["type"]
    ELSE "select"

\* The options of a select, from choice i (counted from 0) on.
RECURSIVE selectOptions(_, _, _)
selectOptions(pair, indices, i) ==
    IF i >= Len(pair.ChoicesValue) THEN <<>>
    ELSE <<El("option", "", "", TRUE, FormatInt(i), IsSelected(i, indices), <<>>,
              escapeHTML(pair.ChoicesValue[i + 1]))>>
         \o selectOptions(pair, indices, i + 1)

\* renderSelectField for the Chosen field f.
renderSelectField(pair, f, class, indices) ==
    renderLabel(f.cfg, f)
    \o <<[El("select", "", f.cfg.Name, FALSE, <<>>, pair.IsMultiSelect, escapeHTML(class), <<>>)
          EXCEPT !.attrs = <<KV("name", Chars(f.cfg.Name))>> \o addUniversalAttributes(f.cfg)]>>
    \o selectOptions(pair, indices, 0)
    \o <<El("/select", "", "", FALSE, <<>>, FALSE, <<>>, <<>>)>>

\* radioID, checkboxID: fmt.Sprintf("%s_%d", config.Name, i)
itemID(cfg, i) == Chars(cfg.Name) \o <<"_">> \o FormatInt(i)

\* The items of a radio or checkbox group, from choice i on: an input and
\* its label.
RECURSIVE groupItems(_, _, _, _, _, _)
groupItems(type, pair, f, class, indices, i) ==
    IF i >= Len(pair.ChoicesValue) THEN <<>>
    ELSE <<[Input(type, f.cfg.Name, TRUE, FormatInt(i), IsSelected(i, indices), escapeHTML(class))
            EXCEPT !.attrs = <<KV("name", Chars(f.cfg.Name)), KV("id", itemID(f.cfg, i))>>
                             \o attrOf(f.cfg, "placeholder") \o flagOf(f.cfg, "required")
                             \o flagOf(f.cfg, "readonly") \o flagOf(f.cfg, "disabled")],
           [El("label", "", f.cfg.Name, FALSE, <<>>, FALSE, <<>>,
               escapeHTML(pair.ChoicesValue[i + 1]))
            EXCEPT !.attrs = <<KV("for", itemID(f.cfg, i))>>]>>
         \o groupItems(type, pair, f, class, indices, i + 1)

\* renderRadioField and renderCheckboxField: the group, in a fieldset with
\* a legend unless nolabel.
renderGroup(type, pair, f, class, indices) ==
    (IF f.cfg.NoLabel THEN <<>>
     ELSE <<El("fieldset", "", "", FALSE, <<>>, FALSE, <<>>, <<>>),
            El("legend", "", f.cfg.Name, FALSE, <<>>, FALSE, <<>>,
               escapeHTML(generateLabel(f.cfg, f)))>>)
    \o groupItems(type, pair, f, class, indices, 0)
    \o (IF f.cfg.NoLabel THEN <<>>
        ELSE <<El("/fieldset", "", "", FALSE, <<>>, FALSE, <<>>, <<>>)>>)

\* renderMultiValueField: the error and the elements written.
renderMultiValueField(pair, f, class) ==
    LET inputType == MultiInputType(f.cfg)
        indices == selectedIndices(pair)
    IN  IF inputType = "select"
        THEN [err |-> NoErr, els |-> renderSelectField(pair, f, class, indices)]
        ELSE IF inputType = "radio"
        THEN IF pair.IsMultiSelect
             THEN [err |-> <<Lit("vee:"), Lit("radio buttons cannot be used with multi-select field"),
                             Fld(f.base, f.suffix)>>,
                   els |-> <<>>]
             ELSE [err |-> NoErr, els |-> renderGroup("radio", pair, f, class, <<indices[1]>>)]
        ELSE [err |-> NoErr, els |-> renderGroup("checkbox", pair, f, class, indices)]

\* "2006-01-02T15:04:05Z07:00"
FormatRFC3339(t) ==
    LET a == IF t.off < 0 THEN 0 - t.off ELSE t.off
    IN  FormatDate(t) \o <<"T">> \o FormatClock(t) \o <<":">> \o Pad2(t.s)
        \o (IF t.off = 0 THEN <<"Z">>
            ELSE <<IF t.off < 0 THEN "-" ELSE "+">> \o Pad2(a \div 60) \o <<":">> \o Pad2(a % 60))

\* int64(durationVal) printed with %d: the nanoseconds (100000 to a tick).
FormatNanos(d) == IF d = 0 THEN <<"0">> ELSE FormatInt(d) \o <<"0", "0", "0", "0", "0">>

\* An input of a field: its name as written, the attributes between its
\* value and its class, and the universal attributes.
Control(type, cfg, has, value, on, class, numeric) ==
    [Input(type, cfg.Name, has, value, on, escapeHTML(class))
     EXCEPT !.attrs = <<KV("name", Chars(cfg.Name))>> \o numeric \o addUniversalAttributes(cfg)]

\* renderHiddenField: the error and the elements written.
renderHiddenField(f, val, class) ==
    LET hid(has, value) == [err |-> NoErr,
                            els |-> <<Control("hidden", f.cfg, has, value, FALSE, class, <<>>)>>]
    IN  IF f.kind = "time" /\ ~f.ptr
        THEN IF ~IsZero(val) THEN hid(TRUE, escapeHTML(FormatRFC3339(val)))
             ELSE hid(FALSE, <<>>)
        ELSE IF f.kind = "duration" /\ ~f.ptr
        THEN IF val # 0 THEN hid(TRUE, FormatNanos(val)) ELSE hid(FALSE, <<>>)
        ELSE IF f.kind = "string" /\ ~f.ptr THEN hid(TRUE, escapeHTML(val))
        ELSE IF f.kind \in {"int", "int64"} /\ ~f.ptr
        THEN hid(TRUE, FormatInt(val))
        ELSE IF f.kind = "float64" /\ ~f.ptr THEN hid(TRUE, FormatG(val))
        ELSE IF f.kind = "bool" /\ ~f.ptr
        THEN hid(TRUE, IF val THEN <<"t", "r", "u", "e">> ELSE <<"f", "a", "l", "s", "e">>)
        ELSE [err |-> <<Lit("vee:"), Lit("unsupported type for hidden field"),
                        Fld(f.base, f.suffix), Lit(":"), Typ(f)>>,
              els |-> <<>>]

\* The value attribute of a visible time control: none for a nil pointer
\* or the zero time, else the time in the layout of the input type.
timeValue(f, val) ==
    LET t == actualVal(f, val)
    IN  IF NotNil(f, val) /\ ~IsZero(t)
        THEN [has |-> TRUE, value |-> escapeHTML(TimeFormat(TimeInputType(f.cfg), t))]
        ELSE [has |-> FALSE, value |-> <<>>]

\* The value attribute of a visible duration control: none for a nil
\* pointer or a zero duration, else the whole units, printed with %g.
durationValue(f, val) ==
    LET d == actualVal(f, val)
    IN  IF NotNil(f, val) /\ d # 0
        THEN [has |-> TRUE,
              value |-> FormatG(FNum(GoDiv(d, UnitOf(DurationUnits(f.cfg))) * 100))]
        ELSE [has |-> FALSE, value |-> <<>>]

\* The input type of a string field: text unless the type attribute is one
\* of email, password, tel, url.
StringInputType(cfg) ==
    IF "type" \in DOMAIN cfg.Attributes
       /\ cfg.Attributes["type"] \in {"email", "password", "tel", "url"}
    THEN cfg.Attributes["type"]
    ELSE "text"

\* The step attribute of a float64 control: "any" unless the tag has one.
floatStep(cfg) ==
    IF "step" \in DOMAIN cfg.Attributes THEN attrOf(cfg, "step")
    ELSE <<KV("step", <<"a", "n", "y">>)>>

\* A visible scalar field: its label and its control; nothing for a kind
\* Render has no case for.
renderScalar(f, val, class) ==
    LET a == actualVal(f, val)
        tv == timeValue(f, val)
        dv == durationValue(f, val)
        minmax == attrOf(f.cfg, "min") \o attrOf(f.cfg, "max")
        one(type, has, value, on, numeric) ==
            renderLabel(f.cfg, f) \o <<Control(type, f.cfg, has, value, on, class, numeric)>>
    IN  IF f.kind = "time" THEN one(TimeInputType(f.cfg), tv.has, tv.value, FALSE, minmax)
        ELSE IF f.kind = "duration"
        THEN one("number", dv.has, dv.value, FALSE, minmax \o attrOf(f.cfg, "step"))
        ELSE IF f.kind = "string" THEN one(StringInputType(f.cfg), TRUE, escapeHTML(a), FALSE, <<>>)
        ELSE IF f.kind \in {"int", "int64"}
        THEN one("number", TRUE, FormatInt(a), FALSE, minmax \o attrOf(f.cfg, "step"))
        ELSE IF f.kind = "float64"
        THEN one("number", TRUE, FormatG(a), FALSE, minmax \o floatStep(f.cfg))
        ELSE IF f.kind = "bool" THEN one("checkbox", TRUE, <<"t", "r", "u", "e">>, a, <<>>)
        ELSE <<>>

\* The body of the second loop of Render for one field.
renderField(f, val, pairs, options) ==
    LET class == cssClassOf(f, options)
    IN  IF ~f.exported \/ f.cfg.Skip \/ f.suffix = "Choices" THEN [err |-> NoErr, els |-> <<>>]
        ELSE IF f.suffix = "Chosen" /\ f.base \in DOMAIN pairs
        THEN renderMultiValueField(pairs[f.base], f, class)
        ELSE IF f.cfg.Hidden THEN renderHiddenField(f, val, class)
        ELSE [err |-> NoErr, els |-> renderScalar(f, val, class)]

\* A Render that returns with its error what it has written so far.
Aborted_partial(err, html) == [err |-> err, html |-> html, stage |-> "field"]

\* return "", err in the loop of Render: the document written so far is
\* dropped.
Aborted(err, html) == [err |-> err, html |-> <<>>, stage |-> "field"]

\* A Render that writes each field before what it has written so far.
Emit_front(html, els) == els \o html

\* html.WriteString: what a field writes is appended to the document.
Emit(html, els) == html \o els

\* The second loop of Render from field i on, with the elements written so
\* far: an error returns at once, with no document.
RECURSIVE renderLoop(_, _, _, _, _, _)
renderLoop(i, t, r, pairs, options, html) ==
    IF i > Len(t)
    THEN [err |-> NoErr,
          html |-> Emit(html, <<El("/form", "", "", FALSE, <<>>, FALSE, <<>>, <<>>)>>),
          stage |-> "done"]
    ELSE LET x == renderField(t[i], r[i], pairs, options)
         IN  IF x.err # NoErr THEN Aborted(x.err, html)
             ELSE renderLoop(i + 1, t, r, pairs, options, Emit(html, x.els))

\* The form tag: its id and class; unless the action is "script", its
\* method as written (POST by default) and, when there is one, its action.
formTag(options) ==
    LET script == options.FormAction = <<"s", "c", "r", "i", "p", "t">>
        method == IF options.FormMethod = <<>> THEN <<"P", "O", "S", "T">>
                  ELSE options.FormMethod
    IN  [El("form", "", "", ~script /\ options.FormAction # <<>>,
            IF script THEN <<>> ELSE escapeHTML(options.FormAction), FALSE,
            escapeHTML(options.FormCSS), IF script THEN <<>> ELSE method)
         EXCEPT !.id = escapeHTML(options.FormID)]

\* A Render that validates the pairs before it checks the hidden fields.
Render_validateFirst(t, r, opts, v) ==
    IF v.err # NoErr THEN [err |-> v.err, html |-> <<>>, stage |-> "validate"]
    ELSE IF hiddenPass(t, 1) # NoErr
    THEN [err |-> hiddenPass(t, 1), html |-> <<>>, stage |-> "hidden"]
    ELSE renderLoop(1, t, r, v.pairs, ConsolidateOptions(opts), <<formTag(ConsolidateOptions(opts))>>)

\* Render(r, opts...) of a struct of type t, given what
\* validateChoicesChosen returned: the error, the document and the stage
\* that returned (the hidden-field pass, the pair validation, a field of
\* the loop, or the end).
Render(t, r, opts, v) ==
    LET options == ConsolidateOptions(opts)
        h == hiddenPass(t, 1)
    IN  IF h # NoErr THEN [err |-> h, html |-> <<>>, stage |-> "hidden"]
        ELSE IF v.err # NoErr THEN [err |-> v.err, html |-> <<>>, stage |-> "validate"]
        ELSE renderLoop(1, t, r, v.pairs, options, <<formTag(options)>>)

----------------------------------------------------------------------------
(* Submitting the rendered form                                            *)

\* What a control contributes to the submitted form: nothing for an
\* unchecked checkbox or radio button, an unselected option, or a control
\* without a value attribute; else its value with the entities decoded.
Sends(e) ==
    /\ e.tag \in {"input", "option"}
    /\ e.has
    /\ (e.tag = "option" \/ e.type \in {"checkbox", "radio"}) => e.on

\* The name of the control an element belongs to: an option belongs to the
\* last select before it.
RECURSIVE controlName(_, _)
controlName(html, k) ==
    IF html[k].tag = "option"
    THEN (IF html[k - 1].tag = "select" THEN html[k - 1].name ELSE controlName(html, k - 1))
    ELSE html[k].name

\* The submitted values of the control named n, in document order.
RECURSIVE valuesOf(_, _, _)
valuesOf(html, n, k) ==
    IF k > Len(html) THEN <<>>
    ELSE (IF Sends(html[k]) /\ controlName(html, k) = n
          THEN <<DecodeEntities(html[k].value)>> ELSE <<>>)
         \o valuesOf(html, n, k + 1)

\* The form data a submission of the document carries.
parseFormFromMarkup(html) ==
    LET names == {controlName(html, k) : k \in {j \in 1..Len(html) : Sends(html[j])}}
    IN  [n \in names |-> valuesOf(html, n, 1)]

----------------------------------------------------------------------------
(* The strings of the state machine, as sequences of characters           *)

STR_al == <<"a", "l">>
STR_red == <<"r", "e", "d">>
STR_gr == <<"g", ">">>
STR_go == <<"g", "o">>
STR_tla == <<"t", "&", "a">>
STR_sql == <<"s", "q", "l">>
STR_0 == <<"0">>
STR_1 == <<"1">>
STR_2 == <<"2">>
STR_9 == <<"9">>
STR_m1 == <<"-", "1">>
STR_4x == <<"4", "x">>
STR_42 == <<"4", "2">>
STR_m7 == <<"-", "7">>
STR_1p5 == <<"1", ".", "5">>
STR_0p5 == <<"0", ".", "5">>
STR_amp == <<"a", "&", "b">>
STR_false == <<"f", "a", "l", "s", "e">>
STR_on == <<"o", "n">>
STR_date == <<"2", "0", "2", "4", "-", "0", "3", "-", "0", "5">>
STR_datetime == <<"2", "0", "2", "4", "-", "0", "3", "-", "0", "5", "T", "1", "4", ":", "3", "0">>
STR_feb30 == <<"2", "0", "2", "4", "-", "0", "2", "-", "3", "0", "T", "1", "0", ":", "0", "0">>
STR_NaN == <<"N", "a", "N">>
STR_script == <<"s", "c", "r", "i", "p", "t">>
STR_ent == <<"&", "l", "t", ";">>
STR_quo == <<"\"", "'">>

----------------------------------------------------------------------------
(* The struct types of the state machine                                   *)

Plain(name) == FieldConfig(name, FALSE, FALSE, NoAttrs)
With(name, k, v) == FieldConfig(name, FALSE, FALSE, Attr(k, v))

\* Name string; Age int; Active bool; Score *float64
BasicForm ==
    <<StructField("Name", "", "string", FALSE, Plain("name")),
      StructField("Age", "", "int", FALSE, Plain("age")),
      StructField("Active", "", "bool", FALSE, Plain("active")),
      StructField("Score", "", "float64", TRUE, Plain("score"))>>

\* When time.Time; Day *time.Time `vee:"type:'date'"`; Done *bool
TimeForm ==
    <<StructField("When", "", "time", FALSE, Plain("when")),
      StructField("Day", "", "time", TRUE, With("day", "type", "date")),
      StructField("Done", "", "bool", TRUE, Plain("done"))>>

\* Wait time.Duration; Nap *time.Duration `vee:"units:'m'"`; Active bool
DurationForm ==
    <<StructField("Wait", "", "duration", FALSE, Plain("wait")),
      StructField("Nap", "", "duration", TRUE, With("nap", "units", "m")),
      StructField("Active", "", "bool", FALSE, Plain("active"))>>

\* ColorChoices []string; ColorChosen int; SkillChoices []string;
\* SkillChosen []int `vee:"type:'checkbox'"`; Agree bool
ChoiceForm ==
    <<StructField("Color", "Choices", "strings", FALSE, Plain("colorchoices")),
      StructField("Color", "Chosen", "int", FALSE, Plain("color")),
      StructField("Skill", "Choices", "strings", FALSE, Plain("skillchoices")),
      StructField("Skill", "Chosen", "ints", FALSE, With("skill", "type", "checkbox")),
      StructField("Agree", "", "bool", FALSE, Plain("agree"))>>

\* Secret string `vee:"-"`; level int32 (unexported); Count *int64;
\* On bool `vee:"-"`; Note *string
SkipForm ==
    <<StructField("Secret", "", "string", FALSE, FieldConfig("secret", TRUE, FALSE, NoAttrs)),
      [StructField("level", "", "int32", FALSE, Plain("level")) EXCEPT !.exported = FALSE],
      StructField("Count", "", "int64", TRUE, Plain("count")),
      StructField("On", "", "bool", FALSE, FieldConfig("on", TRUE, FALSE, NoAttrs)),
      StructField("Note", "", "string", TRUE, Plain("note"))>>

\* TagChoices []string without TagChosen; Name string
LoneChoices ==
    <<StructField("Tag", "Choices", "strings", FALSE, Plain("tagchoices")),
      StructField("Name", "", "string", FALSE, Plain("name"))>>

\* Name string; TagChosen int without TagChoices
LoneChosen ==
    <<StructField("Name", "", "string", FALSE, Plain("name")),
      StructField("Tag", "Chosen", "int", FALSE, Plain("tag"))>>

\* AChoices []string; AChosen int; BChoices []string; BChosen []int
TwoPairs ==
    <<StructField("A", "Choices", "strings", FALSE, Plain("achoices")),
      StructField("A", "Chosen", "int", FALSE, Plain("a")),
      StructField("B", "Choices", "strings", FALSE, Plain("bchoices")),
      StructField("B", "Chosen", "ints", FALSE, Plain("b"))>>

\* AChoices []string; AChosen int; BChosen int without BChoices
PairAndLone ==
    <<StructField("A", "Choices", "strings", FALSE, Plain("achoices")),
      StructField("A", "Chosen", "int", FALSE, Plain("a")),
      StructField("B", "Chosen", "int", FALSE, Plain("b"))>>

\* Token *string `vee:"hidden"`; TagChoices []string without TagChosen
HiddenAndLone ==
    <<StructField("Token", "", "string", TRUE, FieldConfig("token", FALSE, TRUE, NoAttrs)),
      StructField("Tag", "Choices", "strings", FALSE, Plain("tagchoices"))>>

\* XChoices string; XChosen int; YChoices []string; YChosen string
WrongKinds ==
    <<StructField("X", "Choices", "string", FALSE, Plain("xchoices")),
      StructField("X", "Chosen", "int", FALSE, Plain("x")),
      StructField("Y", "Choices", "strings", FALSE, Plain("ychoices")),
      StructField("Y", "Chosen", "string", FALSE, Plain("y"))>>

\* Name string; Age int; Big int64; Score float64; Active bool
ScalarForm ==
    <<StructField("Name", "", "string", FALSE, Plain("name")),
      StructField("Age", "", "int", FALSE, Plain("age")),
      StructField("Big", "", "int64", FALSE, Plain("big")),
      StructField("Score", "", "float64", FALSE, Plain("score")),
      StructField("Active", "", "bool", FALSE, Plain("active"))>>

\* When time.Time; Day time.Time `vee:"type:'date'"`;
\* At time.Time `vee:"type:'time'"`
ClockForm ==
    <<StructField("When", "", "time", FALSE, Plain("when")),
      StructField("Day", "", "time", FALSE, With("day", "type", "date")),
      StructField("At", "", "time", FALSE, With("at", "type", "time"))>>

\* Wait time.Duration; Nap time.Duration `vee:"units:'m'"`;
\* Tick time.Duration `vee:"units:'ms'"`; Shift time.Duration `vee:"units:'h'"`
SpanForm ==
    <<StructField("Wait", "", "duration", FALSE, Plain("wait")),
      StructField("Nap", "", "duration", FALSE, With("nap", "units", "m")),
      StructField("Tick", "", "duration", FALSE, With("tick", "units", "ms")),
      StructField("Shift", "", "duration", FALSE, With("shift", "units", "h"))>>

\* Name string; SkillChoices []string;
\* SkillChosen []int `vee:"type:'radio'"`
RadioMulti ==
    <<StructField("Name", "", "string", FALSE, Plain("name")),
      StructField("Skill", "Choices", "strings", FALSE, Plain("skillchoices")),
      StructField("Skill", "Chosen", "ints", FALSE, With("skill", "type", "radio"))>>

\* Name string; Level int32 `vee:"hidden"`; Done bool
HiddenOdd ==
    <<StructField("Name", "", "string", FALSE, Plain("name")),
      StructField("Level", "", "int32", FALSE, FieldConfig("level", FALSE, TRUE, NoAttrs)),
      StructField("Done", "", "bool", FALSE, Plain("done"))>>

\* Name string; AChoices []string; AChosen int `vee:"hidden"`
HiddenPair ==
    <<StructField("Name", "", "string", FALSE, Plain("name")),
      StructField("A", "Choices", "strings", FALSE, Plain("achoices")),
      StructField("A", "Chosen", "int", FALSE, FieldConfig("a", FALSE, TRUE, NoAttrs))>>

\* Name string; TagChosen int `vee:"hidden"` without TagChoices
HiddenLone ==
    <<StructField("Name", "", "string", FALSE, Plain("name")),
      StructField("Tag", "Chosen", "int", FALSE, FieldConfig("tag", FALSE, TRUE, NoAttrs))>>

\* Name string; Tags []string `vee:"hidden"`; Count *int64 `vee:"hidden"`
HiddenSlice ==
    <<StructField("Name", "", "string", FALSE, Plain("name")),
      StructField("Tags", "", "strings", FALSE, FieldConfig("tags", FALSE, TRUE, NoAttrs)),
      StructField("Count", "", "int64", TRUE, FieldConfig("count", FALSE, TRUE, NoAttrs))>>

\* Name string; TagChoices []string `vee:"-"` without TagChosen
SkipChoices ==
    <<StructField("Name", "", "string", FALSE, Plain("name")),
      StructField("Tag", "Choices", "strings", FALSE, FieldConfig("", TRUE, FALSE, NoAttrs))>>

\* AChoices []string `vee:"-"`; AChosen int; Age int
SkipHalf ==
    <<StructField("A", "Choices", "strings", FALSE, FieldConfig("", TRUE, FALSE, NoAttrs)),
      StructField("A", "Chosen", "int", FALSE, Plain("a")),
      StructField("Age", "", "int", FALSE, Plain("age"))>>

\* Title string `vee:"$t<b,label:'a>b',placeholder:'p\"q',id:'i&d'" css:"g>"`;
\* Count int `vee:"min:'<1',required"`; PickChoices []string;
\* PickChosen int `vee:"$p\"q,type:'radio',placeholder:'a>b'"`
MarkupForm ==
    <<[StructField("Title", "", "string", FALSE,
                   FieldConfig("t<b", FALSE, FALSE,
                               Attr("label", "a>b") @@ Attr("placeholder", "p\"q")
                               @@ Attr("id", "i&d")))
       EXCEPT !.css = STR_gr],
      StructField("Count", "", "int", FALSE,
                  FieldConfig("count", FALSE, FALSE, Attr("min", "<1") @@ Attr("required", ""))),
      StructField("Pick", "Choices", "strings", FALSE, Plain("pickchoices")),
      StructField("Pick", "Chosen", "int", FALSE,
                  FieldConfig("p\"q", FALSE, FALSE,
                              Attr("type", "radio") @@ Attr("placeholder", "a>b")))>>

\* Name string `vee:"nolabel"`; Level int32; Tags []string;
\* Token string `vee:"hidden"`; Age *int; PickChoices []string;
\* PickChosen int `vee:"type:'radio',nolabel"`; Score float64
QuietForm ==
    <<StructField("Name", "", "string", FALSE, [Plain("name") EXCEPT !.NoLabel = TRUE]),
      StructField("Level", "", "int32", FALSE, Plain("level")),
      StructField("Tags", "", "strings", FALSE, Plain("tags")),
      StructField("Token", "", "string", FALSE, FieldConfig("token", FALSE, TRUE, NoAttrs)),
      StructField("Age", "", "int", TRUE, Plain("age")),
      StructField("Pick", "Choices", "strings", FALSE, Plain("pickchoices")),
      StructField("Pick", "Chosen", "int", FALSE,
                  [With("pick", "type", "radio") EXCEPT !.NoLabel = TRUE]),
      StructField("Score", "", "float64", FALSE, Plain("score"))>>

\* Name *string; Age *int; Big *int64; Score *float64; Active *bool;
\* When *time.Time; Wait *time.Duration; Day time.Time `vee:"type:'date'"`;
\* Nap time.Duration `vee:"units:'m'"`
OptionalForm ==
    <<StructField("Name", "", "string", TRUE, Plain("name")),
      StructField("Age", "", "int", TRUE, Plain("age")),
      StructField("Big", "", "int64", TRUE, Plain("big")),
      StructField("Score", "", "float64", TRUE, Plain("score")),
      StructField("Active", "", "bool", TRUE, Plain("active")),
      StructField("When", "", "time", TRUE, Plain("when")),
      StructField("Wait", "", "duration", TRUE, Plain("wait")),
      StructField("Day", "", "time", FALSE, With("day", "type", "date")),
      StructField("Nap", "", "duration", FALSE, With("nap", "units", "m"))>>

\* Token string `vee:"hidden"`; ID int `vee:"hidden"`; Big int64 `vee:"hidden"`;
\* Score float64 `vee:"hidden"`; Active bool `vee:"hidden"`;
\* Timeout time.Duration `vee:"hidden"`; Created time.Time `vee:"hidden"`
HiddenForm ==
    <<StructField("Token", "", "string", FALSE, FieldConfig("token", FALSE, TRUE, NoAttrs)),
      StructField("ID", "", "int", FALSE, FieldConfig("id", FALSE, TRUE, NoAttrs)),
      StructField("Big", "", "int64", FALSE, FieldConfig("big", FALSE, TRUE, NoAttrs)),
      StructField("Score", "", "float64", FALSE, FieldConfig("score", FALSE, TRUE, NoAttrs)),
      StructField("Active", "", "bool", FALSE, FieldConfig("active", FALSE, TRUE, NoAttrs)),
      StructField("Timeout", "", "duration", FALSE, FieldConfig("timeout", FALSE, TRUE, NoAttrs)),
      StructField("Created", "", "time", FALSE, FieldConfig("created", FALSE, TRUE, NoAttrs))>>

StructType(n) ==
    CASE n = 1 -> BasicForm
      [] n = 2 -> TimeForm
      [] n = 3 -> ChoiceForm
      [] n = 4 -> SkipForm
      [] n = 5 -> LoneChoices
      [] n = 6 -> LoneChosen
      [] n = 7 -> TwoPairs
      [] n = 8 -> PairAndLone
      [] n = 9 -> HiddenAndLone
      [] n = 10 -> WrongKinds
      [] n = 11 -> DurationForm
      [] n = 12 -> ScalarForm
      [] n = 13 -> ClockForm
      [] n = 14 -> SpanForm
      [] n = 15 -> RadioMulti
      [] n = 16 -> HiddenOdd
      [] n = 17 -> HiddenPair
      [] n = 18 -> HiddenLone
      [] n = 19 -> HiddenSlice
      [] n = 20 -> SkipChoices
      [] n = 21 -> SkipHalf
      [] n = 22 -> MarkupForm
      [] n = 23 -> QuietForm
      [] n = 25 -> OptionalForm
      [] n = 26 -> HiddenForm

\* The record of a type with every field at its zero value.
ZeroRecord(t) == [i \in 1..Len(t) |-> ZeroField(t[i])]

\* The records the machine starts from.  A pointer a record starts with
\* has the position of its field as identity.
Start(n) ==
    CASE n = 1 -> {ZeroRecord(BasicForm),
                   <<STR_al, 7, TRUE, Ptr(4, FNum(250))>>}
      [] n = 2 -> {ZeroRecord(TimeForm),
                   <<Time(2023, 1, 2, 3, 4, 5, 0), Ptr(2, Time(2023, 1, 2, 0, 0, 0, 0)),
                     Ptr(3, TRUE)>>}
      [] n = 3 -> {<<<<STR_red, STR_gr>>, 0, <<STR_go, STR_tla, STR_sql>>, <<1>>, TRUE>>,
                   <<<<STR_red, STR_gr>>, 1, <<STR_go, STR_tla, STR_sql>>, <<>>, FALSE>>}
      [] n = 4 -> {ZeroRecord(SkipForm),
                   <<STR_al, 9, Ptr(3, 12), TRUE, Ptr(5, STR_al)>>}
      [] n = 5 -> {<<<<STR_red>>, <<>>>>, <<<<>>, STR_al>>}
      [] n = 6 -> {<<<<>>, 0>>, <<STR_al, 4>>}
      [] n = 7 -> {<<<<STR_red>>, 0, <<STR_go, STR_tla>>, <<1>>>>,
                   <<<<>>, 0, <<STR_go, STR_tla>>, <<5>>>>,
                   <<<<STR_red>>, 3, <<>>, <<>>>>,
                   <<<<STR_red>>, 0 - 2, <<STR_go>>, <<0, 0 - 4>>>>}
      [] n = 8 -> {<<<<STR_red>>, 0, 0>>, <<<<>>, 0, 0>>, <<<<STR_red>>, 6, 1>>}
      [] n = 9 -> {<<NilPtr("string"), <<STR_red>>>>, <<Ptr(1, STR_al), <<>>>>}
      [] n = 10 -> {<<STR_al, 0, <<STR_red>>, <<>>>>, <<<<>>, 4, <<>>, STR_al>>}
      [] n = 11 -> {ZeroRecord(DurationForm),
                    <<3 * Second, Ptr(2, 5 * Minute), TRUE>>}
      [] n = 15 -> {<<STR_al, <<STR_go, STR_sql>>, <<1>>>>, <<STR_al, <<STR_go>>, <<>>>>}
      [] n = 16 -> {ZeroRecord(HiddenOdd), <<STR_al, 3, TRUE>>}
      [] n = 17 -> {<<STR_al, <<STR_red>>, 0>>, <<STR_al, <<>>, 0>>, <<<<>>, <<STR_red>>, 4>>}
      [] n = 18 -> {<<STR_al, 0>>, <<<<>>, 2>>}
      [] n = 19 -> {ZeroRecord(HiddenSlice), <<STR_al, <<STR_red>>, Ptr(3, 12)>>}
      [] n = 20 -> {<<STR_al, <<STR_red>>>>, <<<<>>, <<>>>>}
      [] n = 21 -> {<<<<STR_red, STR_gr>>, 1, 7>>, <<<<>>, 0, 0>>, <<<<STR_red>>, 5, 0>>}
      [] n = 22 -> {<<STR_quo, 7, <<STR_gr, STR_al>>, 0>>, <<STR_al, 0, <<STR_tla>>, 0>>}
      [] n = 23 -> {<<STR_al, 3, <<STR_red>>, STR_quo, NilPtr("int"), <<STR_go, STR_gr>>, 1, FNum(150)>>,
                    <<<<>>, 0, <<>>, <<>>, Ptr(5, 42), <<STR_go>>, 0, FNum(0)>>}

\* The records with Choices and Chosen fields the machine starts from:
\* those above, and for the well-formed ChoiceForm also values the pair
\* validation rejects.
StartPair(n) ==
    IF n = 3
    THEN Start(3)
         \cup {<<<<STR_red, STR_gr>>, 2, <<STR_go, STR_tla, STR_sql>>, <<0>>, TRUE>>,
                <<<<STR_red, STR_gr>>, 0 - 1, <<STR_go, STR_tla, STR_sql>>, <<0>>, TRUE>>,
                <<<<STR_red, STR_gr>>, 0, <<STR_go, STR_tla, STR_sql>>, <<2, 0 - 1>>, TRUE>>,
                <<<<STR_red, STR_gr>>, 0, <<STR_go, STR_tla, STR_sql>>, <<0, 3>>, TRUE>>,
                <<<<>>, 0, <<STR_go>>, <<0>>, FALSE>>,
                <<<<STR_red, STR_gr>>, 1, <<STR_go, STR_tla, STR_sql>>, <<0, 2>>, FALSE>>}
    ELSE Start(n)

\* The records that are rendered, submitted and bound again.
StartTrip(n) ==
    CASE n = 12 -> {<<a, b, c, d, e>> :
                        a \in {<<>>, STR_amp, STR_ent, STR_quo},
                        b \in {0, 0 - 7, 42},
                        c \in {0, 1000000},
                        d \in {FNum(0), FNum(150), FNum(0 - 25), FNum(123456700), FNaN, FPosInf},
                        e \in BOOLEAN}
      [] n = 13 -> {<<a, b, c>> :
                        a \in {ZeroTime, Time(2024, 3, 5, 14, 30, 0, 0),
                               Time(2024, 3, 5, 14, 30, 45, 0), Time(2024, 3, 5, 14, 30, 0, 120)},
                        b \in {ZeroTime, Time(2024, 3, 5, 0, 0, 0, 0), Time(2024, 3, 5, 14, 30, 0, 0)},
                        c \in {ZeroTime, Time(0, 1, 1, 9, 5, 0, 0), Time(2024, 3, 5, 9, 5, 0, 0)}}
      [] n = 14 -> {<<a, b, c, d>> :
                        a \in {0, 90 * Second, Second + 500 * Millisecond, 0 - 2 * Second,
                              0 - (Second + 500 * Millisecond)},
                        b \in {0, 2 * Minute, 90 * Second},
                        c \in {0, 5 * Millisecond, 5},
                        d \in {0, 3 * Hour}}

----------------------------------------------------------------------------
(* The inputs of Bind                                                      *)

\* What a caller may supply for a field: no key at all, or a list of
\* strings, with what the first string denotes (ok: it denotes a value of
\* the field's kind; val: that value; exact: val is stated).
Absent(kind) == [in |-> FALSE, vs |-> <<>>, ok |-> TRUE, val |-> ZeroOf(kind), exact |-> FALSE]
Good(vs, val) == [in |-> TRUE, vs |-> vs, ok |-> TRUE, val |-> val, exact |-> TRUE]
Loose(vs, kind) == [in |-> TRUE, vs |-> vs, ok |-> TRUE, val |-> ZeroOf(kind), exact |-> FALSE]
Bad(vs, kind) == [in |-> TRUE, vs |-> vs, ok |-> FALSE, val |-> ZeroOf(kind), exact |-> FALSE]

Offers(f) ==
    IF f.suffix = "Choices" /\ f.base \notin {"Tag", "Color"} THEN {Absent(f.kind)}
    ELSE IF BindSkips(f) THEN {Absent(f.kind), Loose(<<STR_42>>, f.kind)}
    ELSE IF f.suffix = "Chosen" /\ f.kind = "ints"
    THEN {Absent("ints"), Loose(<<>>, "ints"), Good(<<STR_0, STR_2>>, <<0, 2>>),
          Bad(<<STR_0, STR_9>>, "ints"), Bad(<<STR_1, STR_m1>>, "ints"),
          Bad(<<STR_0, STR_4x>>, "ints")}
    ELSE IF f.suffix = "Chosen" /\ f.kind = "int"
    THEN {Absent("int"), Good(<<STR_1, STR_9>>, 1), Bad(<<STR_9>>, "int"),
          Bad(<<STR_m1>>, "int"), Bad(<<STR_4x>>, "int")}
    ELSE IF f.kind = "string"
    THEN {Absent("string"), Good(<<STR_amp, STR_al>>, STR_amp), Good(<<<<>>>>, <<>>)}
    ELSE IF f.kind \in {"int", "int64"}
    THEN {Absent("int"), Good(<<STR_m7, STR_4x>>, 0 - 7), Bad(<<STR_4x, STR_42>>, "int")}
    ELSE IF f.kind = "float64"
    THEN {Absent("float64"), Good(<<STR_1p5>>, FNum(150)), Bad(<<STR_4x>>, "float64")}
    ELSE IF f.kind = "bool"
    THEN {Absent("bool"), Loose(<<>>, "bool"), Good(<<<<>>>>, TRUE),
          Good(<<STR_false>>, TRUE)}
    ELSE IF f.kind = "time" /\ TimeInputType(f.cfg) = "date"
    THEN {Absent("time"), Good(<<STR_date>>, Time(2024, 3, 5, 0, 0, 0, 0)),
          Bad(<<STR_datetime>>, "time")}
    ELSE IF f.kind = "time"
    THEN {Absent("time"), Good(<<STR_datetime>>, Time(2024, 3, 5, 14, 30, 0, 0)),
          Bad(<<STR_feb30>>, "time")}
    ELSE IF f.kind = "duration" /\ DurationUnits(f.cfg) = "m"
    THEN {Absent("duration"), Good(<<STR_2>>, 2 * Minute), Loose(<<STR_0p5>>, "duration"),
          Bad(<<STR_4x>>, "duration")}
    ELSE IF f.kind = "duration"
    THEN {Absent("duration"), Good(<<STR_42>>, 42 * Second), Loose(<<STR_1p5>>, "duration"),
          Loose(<<STR_NaN>>, "duration"), Bad(<<<<>>>>, "duration")}
    ELSE {Absent(f.kind)}

\* v with the list vs under the key name.
Put(m, name, vs) == [x \in DOMAIN m \cup {name} |-> IF x = name THEN vs ELSE m[x]]

NoValues == [x \in {} |-> <<>>]

\* The input maps over the external names of the fields from i on.
RECURSIVE InputsFrom(_, _)
InputsFrom(t, i) ==
    IF i > Len(t) THEN {NoValues}
    ELSE {IF o.in THEN Put(m, t[i].cfg.Name, o.vs) ELSE m :
            o \in Offers(t[i]), m \in InputsFrom(t, i + 1)}

Inputs(t) == InputsFrom(t, 1)

\* What the offer behind the list supplied for a field says.
OfferFor(f, values) ==
    CHOOSE o \in Offers(f) :
        IF Exists(values, f.cfg.Name) THEN o.in /\ o.vs = values[f.cfg.Name] ELSE ~o.in

\* The options Render is called with.
RenderOpts ==
    {<<>>,
     <<RenderOption(<<>>, STR_gr, <<>>, STR_quo, <<>>)>>,
     <<RenderOption(STR_al, <<>>, <<>>, <<>>, <<>>)>>,
     <<RenderOption(<<>>, STR_amp, STR_al, STR_go, STR_red),
       RenderOption(STR_gr, <<>>, <<>>, <<>>, STR_script)>>}

----------------------------------------------------------------------------
(* The state machine                                                       *)

MaxCalls == 2
MaxPairCalls == 1

NoBind == [err |-> NoErr, at |-> 0]
NoRender == [err |-> NoErr, html |-> <<>>, stage |-> "none"]
NoCall == [r |-> "none", v |-> "none"]
NoConfig == [Name |-> <<>>, Skip |-> FALSE, NoLabel |-> FALSE, Hidden |-> FALSE,
             Attributes |-> NoValues]

\* The struct types Bind is called on over and over.
BindTypes == {1, 2, 3, 4, 11}

\* The struct types with Choices and Chosen fields, paired or not.
PairTypes == {3, 5, 6, 7, 8, 9, 10} \cup {4} \cup (15..23)

\* A struct of one of the types ns, before any call.
InitOf(ns, records(_)) ==
    /\ \E n \in ns : typ = StructType(n) /\ rec \in records(n)
    /\ nextId = Len(typ) + 1
    /\ calls = 0
    /\ op = "none"
    /\ pre = rec
    /\ shown = rec
    /\ input = NoValues
    /\ ret = NoBind
    /\ rret = NoRender
    /\ form = NoValues
    /\ given = <<>>
    /\ merged = ConsolidateOptions(<<>>)
    /\ arg = NoCall
    /\ panicked = FALSE
    /\ run = <<>>
    /\ veeTag = <<>>
    /\ parsed = NoConfig

Init == InitOf(BindTypes, Start)

InitPair == InitOf(PairTypes, StartPair)

\* A call of Bind with the input values on the record.
BindStep(values) ==
    /\ calls < MaxCalls
    /\ \E v \in validateChoicesChosen(typ, rec), sat \in BOOLEAN :
         \E b \in {Bind(values, typ, rec, nextId, v, sat)} :
             /\ rec' = b.rec
             /\ nextId' = b.id
             /\ ret' = [err |-> b.err, at |-> b.at]
    /\ pre' = rec
    /\ input' = values
    /\ op' = "Bind"
    /\ calls' = calls + 1
    /\ arg' = [r |-> "map", v |-> "ptr"]
    /\ panicked' = FALSE
    /\ UNCHANGED <<typ, shown, rret, form, given, aux>>

DoBind == \E values \in Inputs(typ) : BindStep(values)

\* A call of Render on the record.
DoRender ==
    /\ \E os \in RenderOpts, v \in validateChoicesChosen(typ, rec) :
         /\ rret' = Render(typ, rec, os, v)
         /\ given' = os
    /\ shown' = rec
    /\ pre' = rec
    /\ op' = "Render"
    /\ arg' = [r |-> "none", v |-> "struct"]
    /\ panicked' = FALSE
    /\ UNCHANGED <<typ, rec, nextId, calls, input, ret, form, aux>>

\* Bind called over and over.
Next == DoBind

Spec == Init /\ [][Next]_vars

\* Render and Bind of a struct with Choices and Chosen fields.
DoBindPair == calls < MaxPairCalls /\ DoBind

NextPair == DoRender \/ DoBindPair

SpecPair == InitPair /\ [][NextPair]_vars

----------------------------------------------------------------------------
(* What the properties speak of                                            *)

Fields == 1..Len(typ)

\* The last operation was a call of Bind.
Bound == op = "Bind"

\* The last Bind went through the body of its loop for field i and on.
Processed(i) == Bound /\ (ret.err = NoErr \/ (ret.at > 0 /\ i < ret.at))

\* The last Bind entered the body of its loop for field i.
Entered(i) == Bound /\ (ret.err = NoErr \/ (ret.at > 0 /\ i <= ret.at))

\* A bool or *bool field that Bind does not skip.
IsBool(f) == f.kind = "bool" /\ ~BindSkips(f)

\* A scalar field other than a bool that Bind does not skip.
IsScalar(f) ==
    /\ f.kind \in {"string", "int", "int64", "float64", "time", "duration"}
    /\ f.suffix = ""
    /\ ~BindSkips(f)

\* A field holds the value v: for a pointer field, a non-nil pointer to v.
Holds(f, x, v) == IF f.ptr THEN ~x.nil /\ x.v = v ELSE x = v

\* The identities of the pointers of a record.
IdsOf(t, r) == {r[i].id : i \in {j \in 1..Len(t) : t[j].ptr /\ ~r[j].nil}}

\* The word for a kind in the message of a parse error.
What(f) ==
    CASE f.kind \in {"int", "int64"} -> "integer"
      [] f.kind = "float64" -> "float"
      [] f.kind = "time" -> "time"
      [] f.kind = "duration" -> "duration"
      [] OTHER -> "string"

----------------------------------------------------------------------------
(* Properties of Bind                                                      *)

\* C2 as stated: whenever the external name of a non-skipped bool or *bool
\* field is a key of the input, the field is true after Bind (a *bool a
\* non-nil pointer to true), whatever list of strings the key maps to.
C2_PresenceIsTrue ==
    \A i \in Fields :
        (Processed(i) /\ IsBool(typ[i]) /\ Exists(input, typ[i].cfg.Name))
            => Holds(typ[i], rec[i], TRUE)

\* C2: whenever the external name of a non-skipped bool or *bool field is
\* a key of the input with at least one string, the field is true after
\* Bind, whatever the strings are; with the empty list it is false.
C2_PresenceWithValueIsTrue ==
    \A i \in Fields :
        (Processed(i) /\ IsBool(typ[i]) /\ Exists(input, typ[i].cfg.Name))
            => Holds(typ[i], rec[i], Len(input[typ[i].cfg.Name]) > 0)

\* A bool that was false is true after a Bind given the string "false".
C2_Witness ==
    \E i \in Fields :
        /\ Processed(i) /\ IsBool(typ[i]) /\ Exists(input, typ[i].cfg.Name)
        /\ input[typ[i].cfg.Name] = <<STR_false>>
        /\ Holds(typ[i], pre[i], FALSE)
        /\ Holds(typ[i], rec[i], TRUE)

\* C3: after a Bind that returns no error, a non-skipped bool field whose
\* external name is not a key of the input is false, and a *bool field is
\* a non-nil pointer to false, whatever it held before.
C3_AbsenceResets ==
    (Bound /\ ret.err = NoErr) =>
        \A i \in Fields :
            (IsBool(typ[i]) /\ ~Exists(input, typ[i].cfg.Name))
                => Holds(typ[i], rec[i], FALSE)

\* A bool that was true is false after a Bind without its key.
C3_Witness ==
    /\ Bound /\ ret.err = NoErr
    /\ \E i \in Fields :
        /\ IsBool(typ[i]) /\ ~Exists(input, typ[i].cfg.Name)
        /\ Holds(typ[i], pre[i], TRUE)
        /\ Holds(typ[i], rec[i], FALSE)

\* C4: a field that is not a bool and whose external name is not a key of
\* the input is after Bind exactly what it was before: for a pointer the
\* same pointer, nil or not.
C4_AbsenceUntouched ==
    Bound =>
        \A i \in Fields :
            (typ[i].kind # "bool" /\ ~Exists(input, typ[i].cfg.Name))
                => rec[i] = pre[i]

\* A Bind that changed the struct and left a non-nil pointer, whose key
\* was not in the input, as it was.
C4_Witness ==
    /\ Bound /\ ret.err = NoErr /\ rec # pre
    /\ \E i \in Fields :
        /\ typ[i].kind # "bool" /\ typ[i].ptr /\ ~BindSkips(typ[i])
        /\ ~Exists(input, typ[i].cfg.Name)
        /\ ~pre[i].nil /\ rec[i] = pre[i]

Asked(i) ==
    LET f == typ[i]
        o == OfferFor(f, input)
    IN  IF BindSkips(f) THEN rec[i] = pre[i]
        ELSE IF f.kind = "bool"
        THEN Holds(f, rec[i], Exists(input, f.cfg.Name) /\ Len(input[f.cfg.Name]) > 0)
        ELSE IF ~Exists(input, f.cfg.Name) THEN rec[i] = pre[i]
        ELSE IF Len(input[f.cfg.Name]) = 0 THEN rec[i] = pre[i]
        ELSE o.exact => Holds(f, rec[i], o.val)

\* C6: when Bind fails on the input of a field, the fields declared before
\* it hold what this call gave them, and the field itself and every field
\* declared after it are as they were before the call.
C6_NoRollbackAbort ==
    (Bound /\ ret.err # NoErr /\ ret.at > 0) =>
        /\ \A j \in Fields : j < ret.at => Asked(j)
        /\ \A j \in Fields : j >= ret.at => rec[j] = pre[j]

\* A Bind that failed after it changed an earlier field, with a later
\* bool that was true and has no key in the input.
C6_Witness ==
    /\ Bound /\ ret.err # NoErr /\ ret.at > 0
    /\ \E j, k \in Fields :
        /\ j < ret.at /\ rec[j] # pre[j]
        /\ k > ret.at /\ IsBool(typ[k]) /\ ~Exists(input, typ[k].cfg.Name)
        /\ Holds(typ[k], pre[k], TRUE) /\ Holds(typ[k], rec[k], TRUE)

\* C7: for a []int Chosen field whose external name is a key of the input
\* and that Bind comes to, if a supplied string is not an integer or not
\* in [0, len(choices)), Bind returns an error at that field and the field
\* holds its sequence of before the call.
C7_ChosenAtomic ==
    \A i \in Fields :
        LET f == typ[i]
        IN  (Entered(i) /\ f.suffix = "Chosen" /\ f.kind = "ints"
                /\ Exists(input, f.cfg.Name) /\ ~OfferFor(f, input).ok)
            => (ret.err # NoErr /\ ret.at = i /\ rec[i] = pre[i])

\* A Bind given a valid index and then an invalid one, for a field that
\* held another sequence.
C7_Witness ==
    \E i \in Fields :
        /\ Entered(i) /\ typ[i].suffix = "Chosen" /\ typ[i].kind = "ints"
        /\ Exists(input, typ[i].cfg.Name)
        /\ input[typ[i].cfg.Name] = <<STR_0, STR_9>>
        /\ ret.at = i
        /\ pre[i] = <<1>> /\ rec[i] = <<1>>

\* C13: no Bind, whatever its input map, changes the value of a Choices
\* field: after any sequence of calls every Choices field holds what it
\* held before the first.
C13_ChoicesReadOnly ==
    [][\A i \in Fields : typ[i].suffix = "Choices" => rec'[i] = rec[i]]_vars

\* A second Bind that was given a list under the external name of a
\* Choices field, bound other fields, and left the choices as they were.
C13_Witness ==
    /\ Bound /\ calls = 2 /\ ret.err = NoErr /\ rec # pre
    /\ \E i \in Fields :
          /\ typ[i].suffix = "Choices"
          /\ Exists(input, typ[i].cfg.Name) /\ Len(input[typ[i].cfg.Name]) > 0
          /\ rec[i] = pre[i] /\ Len(rec[i]) > 0

----------------------------------------------------------------------------
(* Properties of the Choices / Chosen convention                           *)

\* The base names declared with the suffix sfx.
Declared(sfx) == {typ[i].base : i \in {j \in Fields : typ[j].exported /\ typ[j].suffix = sfx}}

\* The position of the field <base><sfx>.
Pos(base, sfx) == CHOOSE i \in Fields : typ[i].base = base /\ typ[i].suffix = sfx

Other(sfx) == IF sfx = "Choices" THEN "Chosen" ELSE "Choices"

\* The fields declared without their counterpart.
Unpaired == {u \in Declared("Choices") \X {"Choices"} : u[1] \notin Declared("Chosen")}
            \cup {u \in Declared("Chosen") \X {"Chosen"} : u[1] \notin Declared("Choices")}

Paired == Declared("Choices") \cap Declared("Chosen")

\* A pair of a []string Choices and an int or []int Chosen.
WellTyped(b) ==
    /\ typ[Pos(b, "Choices")].kind = "strings" /\ ~typ[Pos(b, "Choices")].ptr
    /\ typ[Pos(b, "Chosen")].kind \in {"int", "ints"} /\ ~typ[Pos(b, "Chosen")].ptr

\* The chosen indices of pair b in the record r.
Selection(r, b) ==
    IF typ[Pos(b, "Chosen")].kind = "ints" THEN r[Pos(b, "Chosen")]
    ELSE <<r[Pos(b, "Chosen")]>>

Range(seq) == {seq[k] : k \in 1..Len(seq)}

\* The chosen indices of the record r that lie outside [0, len(choices)),
\* each with the number of choices.
OutOfRange(r) ==
    UNION {{<<x, Len(r[Pos(b, "Choices")])>> :
              x \in {y \in Range(Selection(r, b)) : y < 0 \/ y >= Len(r[Pos(b, "Choices")])}} :
           b \in {c \in Paired : WellTyped(c) /\ Len(r[Pos(c, "Choices")]) > 0}}

\* The record r breaks a rule for a declared pair: a wrong type, no
\* choices, an index out of range.
PairDefect(r) ==
    \/ \E b \in Paired : ~WellTyped(b) \/ Len(r[Pos(b, "Choices")]) = 0
    \/ OutOfRange(r) # {}

\* The type breaks a rule for hidden fields, which Render checks first.
HiddenDefect ==
    \E i \in Fields :
        /\ typ[i].exported /\ ~typ[i].cfg.Skip /\ typ[i].cfg.Hidden
        /\ typ[i].ptr \/ typ[i].suffix # "" \/ typ[i].kind \in {"ints", "strings"}

RangeMsg(x, n) == <<Lit("index"), Num(x), Lit("out of range for"), Num(n), Lit("choices")>>

\* The integer a supplied string denotes; the strings of the inputs that
\* denote none are not in the table.
Indices == (STR_0 :> 0) @@ (STR_1 :> 1) @@ (STR_2 :> 2) @@ (STR_9 :> 9) @@ (STR_m1 :> (0 - 1))

\* The strings Bind reads for a Chosen field: the first one for an int.
Supplied(f, vs) == IF f.kind = "int" THEN <<vs[1]>> ELSE vs

\* The first supplied string that is no index of n choices is an integer:
\* its position, 0 when there is none.
FirstOffence(vs, n) ==
    IF \E k \in 1..Len(vs) :
          /\ vs[k] \in DOMAIN Indices /\ (Indices[vs[k]] < 0 \/ Indices[vs[k]] >= n)
          /\ \A j \in 1..(k - 1) : vs[j] \in DOMAIN Indices /\ Indices[vs[j]] \in 0..(n - 1)
    THEN CHOOSE k \in 1..Len(vs) :
          /\ vs[k] \in DOMAIN Indices /\ (Indices[vs[k]] < 0 \/ Indices[vs[k]] >= n)
          /\ \A j \in 1..(k - 1) : vs[j] \in DOMAIN Indices /\ Indices[vs[j]] \in 0..(n - 1)
    ELSE 0

\* The controls of a Chosen field in a document: the options of its
\* select, its radio buttons or its checkboxes.
ChoiceControls(html, name) ==
    {k \in 1..Len(html) :
        /\ html[k].tag \in {"option", "input"}
        /\ html[k].has
        /\ controlName(html, k) = name}

\* C8, for Render: when a chosen index of the record, negative ones
\* included, is outside [0, len(choices)), Render returns an error and no
\* document, and unless the record breaks another rule the error contains
\* "index <i> out of range for <n> choices" for such an index; a document
\* Render does return marks exactly the chosen indices.
C8_RenderBounds ==
    op = "Render" =>
        /\ OutOfRange(shown) # {} =>
              /\ rret.err # NoErr /\ rret.html = <<>>
              /\ (~HiddenDefect /\ Unpaired = {}
                    /\ \A b \in Paired : WellTyped(b) /\ Len(shown[Pos(b, "Choices")]) > 0)
                 => \E x \in OutOfRange(shown) : Contains(rret.err, RangeMsg(x[1], x[2]))
        /\ rret.err = NoErr =>
              \A b \in Paired :
                  LET name == typ[Pos(b, "Chosen")].cfg.Name
                      ks == ChoiceControls(rret.html, name)
                  IN  /\ Cardinality(ks) = Len(shown[Pos(b, "Choices")])
                      /\ \A k \in ks :
                            /\ rret.html[k].value \in DOMAIN Indices
                            /\ rret.html[k].on <=>
                                 Indices[rret.html[k].value] \in Range(Selection(shown, b))

\* C8, for Bind: when the first supplied string of a Chosen field that is
\* no index of the choices is an integer outside [0, len(choices)), Bind
\* returns at that field an error containing "index <i> out of range for
\* <n> choices" and the field is as before; a Bind that returns no error
\* has stored exactly the supplied indices.
C8_BindBounds ==
    \A b \in Paired :
        LET i == Pos(b, "Chosen")
            f == typ[i]
            n == Len(pre[Pos(b, "Choices")])
            vs == Supplied(f, input[f.cfg.Name])
            k == FirstOffence(vs, n)
        IN  (Entered(i) /\ Exists(input, f.cfg.Name) /\ Len(input[f.cfg.Name]) > 0)
            => /\ k # 0 => /\ ret.at = i
                           /\ Contains(ret.err, RangeMsg(Indices[vs[k]], n))
                           /\ rec[i] = pre[i]
               /\ ret.err = NoErr =>
                    /\ \A j \in 1..Len(vs) : vs[j] \in DOMAIN Indices
                    /\ Selection(rec, b) = [j \in 1..Len(vs) |-> Indices[vs[j]]]
                    /\ OutOfRange(rec) = {}

NamesCounterpart(err) ==
    \E u \in Unpaired :
        Contains(err, <<Lit("field"), Fld(u[1], u[2]), Lit("requires corresponding"),
                        Fld(u[1], Other(u[2])), Lit("field")>>)

\* C9 as stated: for a type with a Choices field without its Chosen, or a
\* Chosen without its Choices, Render and Bind return an error whose
\* message names the missing counterpart, whatever the other fields and
\* values are.
C9_AlwaysNamesCounterpart ==
    Unpaired # {} =>
        /\ op = "Render" => (rret.err # NoErr /\ NamesCounterpart(rret.err))
        /\ Bound => (ret.err # NoErr /\ NamesCounterpart(ret.err))

\* C9: for such a type Render and Bind return an error; the message names
\* a missing counterpart when the declared pairs of the record break no
\* rule and, for Render, the type breaks no rule for hidden fields.
C9_PairingSymmetry ==
    Unpaired # {} =>
        /\ op = "Render" =>
              /\ rret.err # NoErr /\ rret.html = <<>>
              /\ (~PairDefect(shown) /\ ~HiddenDefect) => NamesCounterpart(rret.err)
        /\ Bound =>
              /\ ret.err # NoErr /\ ret.at = 0 /\ rec = pre
              /\ ~PairDefect(pre) => NamesCounterpart(ret.err)

\* Render and then Bind of a record with a sound pair and a Chosen field
\* without Choices: both name the missing Choices.
C9_Witness ==
    /\ Bound /\ shown = pre /\ rret.stage = "validate"
    /\ Paired # {} /\ ~PairDefect(pre)
    /\ \E u \in Unpaired : u[2] = "Chosen"
    /\ NamesCounterpart(ret.err) /\ NamesCounterpart(rret.err)

\* C10 as stated: Bind reports a Choices / Chosen violation if and only if
\* Render of the same record does, and the violation reported is the same.
C10_SameVerdict ==
    (Bound /\ rret.stage # "none" /\ shown = pre) =>
        /\ (ret.err # NoErr /\ ret.at = 0) <=> (rret.stage = "validate")
        /\ (ret.err # NoErr /\ ret.at = 0) => ret.err = rret.err

\* Render and Bind of the same record each report a violation of the pair
\* rules, and not the same one.
C10_Witness ==
    /\ Bound /\ shown = pre
    /\ rret.stage = "validate"
    /\ ret.err # NoErr /\ ret.at = 0
    /\ ret.err # rret.err

----------------------------------------------------------------------------
(* Properties of Render as a whole                                         *)

Rendered == op = "Render"

\* The kinds Render and Bind have a case for.
Supported == {"string", "int", "int64", "float64", "bool", "time", "duration"}

\* A field the loops of Render and Bind go through: exported, not tagged "-".
Live(f) == f.exported /\ ~f.cfg.Skip

\* The type asks for radio buttons for a []int Chosen of a declared pair.
RadioDefect ==
    \E i \in Fields :
        /\ Live(typ[i]) /\ typ[i].suffix = "Chosen" /\ typ[i].base \in Paired
        /\ typ[i].kind = "ints"
        /\ "type" \in DOMAIN typ[i].cfg.Attributes
        /\ typ[i].cfg.Attributes["type"] = "radio"

\* The type has a hidden field of a kind there is no hidden input for.
OddHidden ==
    \E i \in Fields :
        /\ Live(typ[i]) /\ typ[i].cfg.Hidden /\ typ[i].suffix \notin {"Choices", "Chosen"}
        /\ ~typ[i].ptr /\ typ[i].kind \notin Supported \cup {"ints", "strings"}

\* C11: Render returns an error exactly for a hidden-field violation, a
\* pair validation failure, radio buttons asked for a multi-select and a
\* hidden field of an unsupported type, and the markup returned with an
\* error is empty wherever the offending field is declared; a Bind whose
\* pair validation fails returns an error and has modified no field.
C11_NoPartialOutput ==
    /\ Rendered =>
          /\ rret.err # NoErr <=>
                (HiddenDefect \/ Unpaired # {} \/ PairDefect(shown) \/ RadioDefect \/ OddHidden)
          /\ rret.err # NoErr => rret.html = <<>>
    /\ (Bound /\ (Unpaired # {} \/ PairDefect(pre))) => (ret.err # NoErr /\ rec = pre)

\* Render of a struct whose first field renders and whose last field asks
\* for radio buttons for a []int: the error, and no markup.
C11_Witness ==
    /\ Rendered /\ rret.stage = "field" /\ rret.html = <<>>
    /\ typ[1].kind = "string" /\ Live(typ[1]) /\ ~typ[1].cfg.Hidden
    /\ RadioDefect
    /\ Contains(rret.err, <<Lit("radio buttons cannot be used with multi-select field"),
                            Fld("Skill", "Chosen")>>)

\* The hidden fields the first pass of Render rejects: a pointer, a slice,
\* a name ending in Choices or Chosen.
Offenders ==
    {i \in Fields :
        /\ Live(typ[i]) /\ typ[i].cfg.Hidden
        /\ typ[i].ptr \/ typ[i].suffix \in {"Choices", "Chosen"}
           \/ typ[i].kind \in {"ints", "strings"}}

\* A hidden-attribute error that names field i.
HiddenErrorFor(err, i) ==
    \E w \in {"hidden attribute not supported for pointer type",
              "hidden attribute not supported for multi-value field",
              "hidden attribute not supported for slice/array type"} :
        Contains(err, <<Lit("vee:"), Lit(w), Fld(typ[i].base, typ[i].suffix)>>)

\* C12: when a non-skipped hidden field is a pointer, a slice or a Choices
\* or Chosen field, Render returns the hidden-attribute error naming the
\* first such field and no markup, whatever the record holds and whether
\* or not a pair is also unpaired, empty or out of range.
C12_HiddenFirst ==
    (Rendered /\ Offenders # {}) =>
        /\ rret.html = <<>>
        /\ HiddenErrorFor(rret.err, CHOOSE i \in Offenders : \A j \in Offenders : i <= j)

\* Render of a struct whose hidden Chosen holds an index out of range: the
\* hidden-attribute error for that field, not the range error.
C12_Witness ==
    /\ Rendered /\ rret.stage = "hidden"
    /\ OutOfRange(shown) # {}
    /\ \E i \in Offenders : typ[i].suffix = "Chosen" /\ HiddenErrorFor(rret.err, i)

\* A sequence without its element i: the struct type, or the struct
\* value, without field i.
Without(seq, i) == SubSeq(seq, 1, i - 1) \o SubSeq(seq, i + 1, Len(seq))

\* The fields tagged vee:"-".
SkippedFields == {i \in Fields : typ[i].cfg.Skip}

\* The fresh identity the last Bind started from: it takes one for every
\* pointer it stores.
IdBefore == nextId - Cardinality({j \in Fields : typ[j].ptr /\ rec[j] # pre[j]})

\* What Render may return for the struct without field i.
RenderWithout(i) ==
    {Render(Without(typ, i), Without(shown, i), given, v) :
        v \in validateChoicesChosen(Without(typ, i), Without(shown, i))}

\* What Bind may do with the struct without field i: the error and the
\* struct afterwards.
BindWithout(i) ==
    {[err |-> b.err, rec |-> b.rec] :
        b \in {Bind(input, Without(typ, i), Without(pre, i), IdBefore, v, sat) :
                 v \in validateChoicesChosen(Without(typ, i), Without(pre, i)),
                 sat \in BOOLEAN}}

\* C14 as stated: for a field tagged vee:"-", whatever its type, name and
\* value, Render returns the markup or error it returns for the type
\* without the field, and Bind returns the same error and leaves the same
\* values in the other fields as for the type without the field, and does
\* not change the field.
C14_SkipExcluded ==
    \A i \in SkippedFields :
        /\ Rendered =>
              \E x \in RenderWithout(i) : x.err = rret.err /\ x.html = rret.html
        /\ Bound =>
              /\ rec[i] = pre[i]
              /\ [err |-> ret.err, rec |-> Without(rec, i)] \in BindWithout(i)

\* Render of a struct whose skipped field is named TagChoices: an error
\* that asks for TagChosen, where the struct without the field renders.
C14_Witness ==
    /\ Rendered /\ rret.stage = "validate"
    /\ \E i \in SkippedFields :
          /\ typ[i].suffix = "Choices"
          /\ Contains(rret.err, <<Fld(typ[i].base, "Choices"), Lit("requires corresponding"),
                                  Fld(typ[i].base, "Chosen")>>)
          /\ \A x \in RenderWithout(i) : x.err = NoErr

----------------------------------------------------------------------------
(* The round trip: Render, submission of the form, Bind into a new struct  *)

TripTypes == {12, 13, 14}

InitTrip == InitOf(TripTypes, StartTrip)

\* The rendered form is submitted: what a browser sends for the document.
DoSubmit ==
    /\ op = "Render"
    /\ rret.stage = "done"
    /\ form' = parseFormFromMarkup(rret.html)
    /\ pre' = rec
    /\ op' = "Submit"
    /\ UNCHANGED <<typ, rec, nextId, calls, shown, input, ret, rret, given, arg, panicked, aux>>

\* The receiver makes a new struct of the type: var v T.
DoNew ==
    /\ op = "Submit"
    /\ rec' = ZeroRecord(typ)
    /\ pre' = rec
    /\ op' = "New"
    /\ UNCHANGED <<typ, nextId, calls, shown, input, ret, rret, form, given, arg, panicked, aux>>

\* The submitted form is bound into the new struct.
DoBindForm == op = "New" /\ BindStep(form)

\* The struct is rendered: the first one, or the one bound last.
DoRenderTrip == op \in {"none", "Bind"} /\ DoRender

NextTrip == DoRenderTrip \/ DoSubmit \/ DoNew \/ DoBindForm

SpecTrip == InitTrip /\ [][NextTrip]_vars

\* Go's == on two values of a field's kind.
Equal(f, a, b) == IF f.kind = "float64" THEN a.k # "nan" /\ a = b ELSE a = b

\* The values the control of a field can carry: any string, integer or
\* bool; a float64 other than NaN; the zero time, or a time in UTC, in the
\* years 0 to 9999, with no seconds and with nothing outside the layout of
\* the input type (date: midnight; time: 1 January of the year 0); a
\* duration that is a whole number of the field's units.
Representable(f, x) ==
    CASE f.kind = "float64" -> x.k # "nan"
      [] f.kind = "time" ->
            \/ x = ZeroTime
            \/ /\ x.off = 0 /\ x.s = 0 /\ x.y \in 0..9999
               /\ TimeInputType(f.cfg) = "date" => (x.h = 0 /\ x.mi = 0)
               /\ TimeInputType(f.cfg) = "time" => (x.y = 0 /\ x.mo = 1 /\ x.d = 1)
      [] f.kind = "duration" -> x % UnitOf(DurationUnits(f.cfg)) = 0
      [] OTHER -> TRUE

\* A round trip has ended: the last Bind bound the form of the rendered
\* struct into a new struct.
TripDone == Bound /\ input = form /\ pre = ZeroRecord(typ)

\* C1 as stated: for every scalar kind under any format or unit and every
\* value x, Render of a record holding x, submission of the form and Bind
\* into a new zero record yield a field equal to x.
C1_RoundTripEveryValue ==
    TripDone => \A i \in Fields : Equal(typ[i], rec[i], shown[i])

\* C1: the round trip returns no error and yields a field equal to x for
\* every x the control of the field can carry.
C1_RoundTrip ==
    TripDone =>
        /\ ret.err = NoErr
        /\ \A i \in Fields : Representable(typ[i], shown[i]) => Equal(typ[i], rec[i], shown[i])

\* A round trip of a record whose string is "&lt;", with every field
\* equal to the original.
C1_Witness ==
    /\ TripDone
    /\ \E i \in Fields : typ[i].kind = "string" /\ shown[i] = STR_ent /\ rec[i] = STR_ent
    /\ \A i \in Fields : Equal(typ[i], rec[i], shown[i])
    /\ rec # pre

----------------------------------------------------------------------------
(* The arguments of Bind and Render                                        *)

\* What a caller may pass as r: a map[string][]string, a nil map of that
\* type, the nil interface, a value of another type (a string).
InputShapes == {"map", "nilmap", "nil", "other"}

\* What a caller may pass as v: a struct, a pointer to a struct, the nil
\* interface, a nil pointer to a struct, a value that is no struct (a
\* string), a pointer to such a value, a pointer to a pointer to a struct.
TargetShapes == {"struct", "ptr", "nil", "nilptr", "other", "ptr-other", "ptrptr"}

\* typ.Kind() of the argument v, printed with %v.
KindOf(v) ==
    CASE v = "struct" -> "struct"
      [] v = "other" -> "string"
      [] OTHER -> "ptr"

\* typ.Elem().Kind() of a pointer argument.
ElemKindOf(v) ==
    CASE v = "ptr-other" -> "string"
      [] v = "ptrptr" -> "ptr"
      [] OTHER -> "struct"

\* What a call comes to: it returns (an error or none), or it panics.
Returns(err) == [err |-> err, panic |-> FALSE]
Panics == [err |-> NoErr, panic |-> TRUE]

\* The checks of Bind on its arguments.  reflect.TypeOf of the nil
\* interface is nil, and typ.Kind() on it is a nil dereference.
bindArgs(r, v) ==
    IF r \notin {"map", "nilmap"}
    THEN Returns(<<Lit("vee:"), Lit("expected url.Values or map[string][]string, got"),
                   Lit(IF r = "nil" THEN "<nil>" ELSE "string")>>)
    ELSE IF v = "nil" THEN Panics
    ELSE IF KindOf(v) # "ptr"
    THEN Returns(<<Lit("vee:"), Lit("expected pointer to struct, got"), Lit(KindOf(v))>>)
    ELSE IF ElemKindOf(v) # "struct"
    THEN Returns(<<Lit("vee:"), Lit("expected pointer to struct, got pointer to"),
                   Lit(ElemKindOf(v))>>)
    ELSE Returns(NoErr)

\* The checks of Render on its argument: a pointer is followed once.
renderArgs(v) ==
    IF v = "nil" THEN Panics
    ELSE IF (IF KindOf(v) = "ptr" THEN ElemKindOf(v) ELSE KindOf(v)) # "struct"
    THEN Returns(<<Lit("vee:"), Lit("expected struct, got"),
                   Lit(IF KindOf(v) = "ptr" THEN ElemKindOf(v) ELSE KindOf(v))>>)
    ELSE Returns(NoErr)

\* The loop of validateChoicesChosen over choicesFields when val is the
\* zero Value (the Elem of a nil pointer): an error found in the types is
\* returned; val.FieldByName panics.  With every slice empty, as in the
\* zero record, a pair whose types pass is the one that reports "cannot be
\* empty": it is the one whose values are read.
RECURSIVE validateLoopZero(_, _)
validateLoopZero(t, ord) ==
    IF Len(ord) = 0 THEN Returns(NoErr)
    ELSE IF Contains(validatePair(t, ZeroRecord(t), Head(ord)), <<Lit("cannot be empty")>>)
    THEN Panics
    ELSE IF validatePair(t, ZeroRecord(t), Head(ord)) # NoErr
    THEN Returns(validatePair(t, ZeroRecord(t), Head(ord)))
    ELSE validateLoopZero(t, Tail(ord))

\* validateChoicesChosen of the zero Value, and then the field loop, whose
\* val.Field(i) panics when the type has a field.
zeroValue(t, ord1, ord2) ==
    IF validateLoopZero(t, ord1) # Returns(NoErr) THEN validateLoopZero(t, ord1)
    ELSE IF orphanLoop(t, ord2) # NoErr THEN Returns(orphanLoop(t, ord2))
    ELSE IF Len(t) > 0 THEN Panics
    ELSE Returns(NoErr)

\* Every outcome of a call on a nil pointer to a struct of type t.
zeroValues(t) ==
    {zeroValue(t, ord1, ord2) :
        ord1 \in Perms(choicesFields(t)), ord2 \in Perms(chosenFields(t))}

\* type Empty struct{}
Empty == <<>>

\* The struct types the calls with arguments of every shape are made on.
ArgTypes == {1, 5, 7, 9, 24}

ArgStart(n) == IF n = 24 THEN {<<>>} ELSE Start(n)

ArgType(n) == IF n = 24 THEN Empty ELSE StructType(n)

InitArgs ==
    /\ \E n \in ArgTypes : typ = ArgType(n) /\ rec \in ArgStart(n)
    /\ nextId = Len(typ) + 1
    /\ calls = 0
    /\ op = "none"
    /\ pre = rec
    /\ shown = rec
    /\ input = NoValues
    /\ ret = NoBind
    /\ rret = NoRender
    /\ form = NoValues
    /\ given = <<>>
    /\ merged = ConsolidateOptions(<<>>)
    /\ arg = NoCall
    /\ panicked = FALSE
    /\ run = <<>>
    /\ veeTag = <<>>
    /\ parsed = NoConfig

\* Bind(r, v) with arguments of the shapes r and v; when r is a map it
\* holds values, and when v points to a struct it points to the record.
DoBindArg ==
    /\ calls < MaxPairCalls
    /\ \E r \in InputShapes, v \in TargetShapes, values \in Inputs(typ) :
         /\ arg' = [r |-> r, v |-> v]
         /\ input' = IF r = "map" THEN values ELSE NoValues
         /\ \E a \in {bindArgs(r, v)} :
              IF a # Returns(NoErr)
              THEN /\ ret' = [err |-> a.err, at |-> 0]
                   /\ panicked' = a.panic
                   /\ UNCHANGED <<rec, nextId>>
              ELSE IF v = "nilptr"
              THEN /\ \E z \in zeroValues(typ) :
                        ret' = [err |-> z.err, at |-> 0] /\ panicked' = z.panic
                   /\ UNCHANGED <<rec, nextId>>
              ELSE /\ \E vc \in validateChoicesChosen(typ, rec), sat \in BOOLEAN :
                        \E b \in {Bind(input', typ, rec, nextId, vc, sat)} :
                            /\ rec' = b.rec
                            /\ nextId' = b.id
                            /\ ret' = [err |-> b.err, at |-> b.at]
                   /\ panicked' = FALSE
    /\ pre' = rec
    /\ op' = "Bind"
    /\ calls' = calls + 1
    /\ UNCHANGED <<typ, shown, rret, form, given, aux>>

\* Render(v) with an argument of the shape v.
DoRenderArg ==
    /\ \E v \in TargetShapes :
         /\ arg' = [r |-> "none", v |-> v]
         /\ \E a \in {renderArgs(v)} :
              IF a # Returns(NoErr)
              THEN /\ rret' = [err |-> a.err, html |-> <<>>, stage |-> "args"]
                   /\ panicked' = a.panic
              ELSE IF v = "nilptr"
              THEN IF hiddenPass(typ, 1) # NoErr
                   THEN /\ rret' = [err |-> hiddenPass(typ, 1), html |-> <<>>, stage |-> "hidden"]
                        /\ panicked' = FALSE
                   ELSE \E z \in zeroValues(typ) :
                          /\ rret' = IF z.panic \/ z.err # NoErr
                                     THEN [err |-> z.err, html |-> <<>>, stage |-> "validate"]
                                     ELSE renderLoop(1, typ, rec, [b \in {} |-> 0],
                                                     ConsolidateOptions(<<>>),
                                                     <<formTag(ConsolidateOptions(<<>>))>>)
                          /\ panicked' = z.panic
              ELSE /\ \E vc \in validateChoicesChosen(typ, rec) :
                        rret' = Render(typ, rec, <<>>, vc)
                   /\ panicked' = FALSE
    /\ given' = <<>>
    /\ shown' = rec
    /\ pre' = rec
    /\ op' = "Render"
    /\ UNCHANGED <<typ, rec, nextId, calls, input, ret, form, aux>>

NextArgs == DoBindArg \/ DoRenderArg

SpecArgs == InitArgs /\ [][NextArgs]_vars

\* The arguments the usage errors are about: for Bind an input that is not
\* a map[string][]string (the nil interface among them) or a target that
\* is not a non-nil pointer to a struct; for Render an argument that is
\* neither a struct nor a non-nil pointer to one.
BadArgs ==
    \/ Bound /\ (arg.r \in {"nil", "other"} \/ arg.v # "ptr")
    \/ Rendered /\ arg.v \notin {"struct", "ptr"}

\* C15 as stated: a call with such an argument, nil and a nil pointer to a
\* struct included, returns an error, does not panic and modifies nothing.
C15_ErrorsNeverPanics ==
    BadArgs =>
        /\ ~panicked
        /\ (IF Bound THEN ret.err ELSE rret.err) # NoErr
        /\ rec = pre /\ (Rendered => rret.html = <<>>)

\* Bind of a map into the nil interface panics.
C15_Witness ==
    /\ Bound /\ arg = [r |-> "map", v |-> "nil"] /\ panicked /\ ret.err = NoErr

----------------------------------------------------------------------------
(* Properties of the escaping of the written text                          *)

\* The characters escapeHTML replaces apart from &.
Markup == {"\"", "<", ">"}

HasMarkup(s) == \E k \in 1..Len(s) : s[k] \in Markup

\* Every text written into an element of the document.
Written(e) == {e.value, e.class, e.text, e.id} \cup {e.attrs[k].v : k \in 1..Len(e.attrs)}

\* C16 as stated: the document Render returns holds no raw ", < or > in
\* any text that comes from the caller: values, labels, choices, attribute
\* contents, classes, the external name in name=, id= and for=, and the
\* form's id, class, method and action.
C16_AllEscaped ==
    Rendered => \A k \in 1..Len(rret.html) : \A s \in Written(rret.html[k]) : ~HasMarkup(s)

\* A form is returned whose control is named t<b, written as it is.
C16_Witness ==
    /\ Rendered /\ rret.err = NoErr
    /\ \E k \in 1..Len(rret.html) :
         /\ rret.html[k].tag = "input"
         /\ \E j \in 1..Len(rret.html[k].attrs) :
              rret.html[k].attrs[j] = KV("name", <<"t", "<", "b">>)

----------------------------------------------------------------------------
(* ConsolidateOptions on its own                                           *)

OptionFields == {"DefaultInputCSS", "FormID", "FormCSS", "FormMethod", "FormAction"}

\* The option with the one field fld set to the text s.
Only(fld, s) == [RenderOption(<<>>, <<>>, <<>>, <<>>, <<>>) EXCEPT ![fld] = s]

\* The options the lists are made of: the zero option, the options with
\* one field set, to one of two texts, and an option with every field set.
OptionValues ==
    {RenderOption(<<>>, <<>>, <<>>, <<>>, <<>>),
     RenderOption(STR_gr, STR_amp, STR_al, STR_quo, STR_script)}
    \cup {Only(fld, s) : fld \in OptionFields, s \in {STR_red, STR_go}}

\* The longest list of options.
MaxOpts == 3

OptionLists == UNION {[1..n -> OptionValues] : n \in 0..MaxOpts}

\* A caller holding a list of options, before the call.
InitOpts ==
    /\ typ = Empty
    /\ rec = <<>>
    /\ nextId = 1
    /\ calls = 0
    /\ op = "none"
    /\ pre = rec
    /\ shown = rec
    /\ input = NoValues
    /\ ret = NoBind
    /\ rret = NoRender
    /\ form = NoValues
    /\ given \in OptionLists
    /\ merged = RenderOption(<<>>, <<>>, <<>>, <<>>, <<>>)
    /\ arg = NoCall
    /\ panicked = FALSE
    /\ run = <<>>
    /\ veeTag = <<>>
    /\ parsed = NoConfig

\* ConsolidateOptions(given...): the options are passed by value and the
\* result is a new RenderOption.
DoConsolidate ==
    /\ op = "none"
    /\ merged' = ConsolidateOptions(given)
    /\ op' = "ConsolidateOptions"
    /\ UNCHANGED <<typ, rec, nextId, calls, pre, shown, input, ret, rret, form, given,
                   arg, panicked, run, veeTag, parsed>>

NextOpts == DoConsolidate

SpecOpts == InitOpts /\ [][NextOpts]_vars

\* The positions of the list where the field is not empty.
NonEmptyAt(os, fld) == {k \in 1..Len(os) : os[k][fld] # <<>>}

\* The field in the last option of the list where it is not empty, and
\* the empty string when there is none.
LastNonEmpty(os, fld) ==
    IF NonEmptyAt(os, fld) = {} THEN <<>>
    ELSE os[CHOOSE k \in NonEmptyAt(os, fld) : \A j \in NonEmptyAt(os, fld) : j <= k][fld]

\* C17: ConsolidateOptions yields, for each of the five fields on its own,
\* the value of the field in the last option where it is not empty, and
\* the empty string when it is empty in all of them; the call leaves the
\* list of options as it was.
C17_LastNonEmptyWins ==
    [](op = "ConsolidateOptions" =>
          \A fld \in OptionFields : merged[fld] = LastNonEmpty(given, fld))
    /\ [][given' = given]_vars

\* Three options whose css is red, then go, then empty: the result has go,
\* and the other fields are empty.
C17_Witness ==
    /\ op = "ConsolidateOptions"
    /\ given = <<Only("DefaultInputCSS", STR_red), Only("DefaultInputCSS", STR_go),
                 Only("FormID", STR_red)>>
    /\ merged = RenderOption(STR_go, STR_red, <<>>, <<>>, <<>>)

----------------------------------------------------------------------------
(* Properties of the order of the document                                 *)

IsControl(e) == e.tag \in {"input", "select"}

IsForm(e) == e.tag \in {"form", "/form"}

\* A sequence without the repetitions of an element next to itself: the
\* items of a radio or checkbox group carry the same name.
RECURSIVE Collapse(_)
Collapse(seq) ==
    IF Len(seq) <= 1 THEN seq
    ELSE IF seq[1] = seq[2] THEN Collapse(Tail(seq))
    ELSE <<seq[1]>> \o Collapse(Tail(seq))

RECURSIVE NamesOf(_)
NamesOf(els) == IF Len(els) = 0 THEN <<>> ELSE <<Head(els).name>> \o NamesOf(Tail(els))

\* The names of the controls of a document, in its order, a group once.
ControlNames(html) == Collapse(NamesOf(SelectSeq(html, IsControl)))

\* The fields that get a control: exported, not skipped, not a Choices
\* field, and a Chosen field or a field of a supported kind.
HasControl(f) ==
    Live(f) /\ f.suffix # "Choices" /\ (f.suffix = "Chosen" \/ f.kind \in Supported)

RECURSIVE DeclaredNames(_)
DeclaredNames(t) ==
    IF Len(t) = 0 THEN <<>>
    ELSE (IF HasControl(Head(t)) THEN <<Head(t).cfg.Name>> ELSE <<>>) \o DeclaredNames(Tail(t))

\* The position of the first control of the field in the document.
FirstControl(html, f) ==
    CHOOSE k \in 1..Len(html) :
        /\ IsControl(html[k]) /\ html[k].name = f.cfg.Name
        /\ \A j \in 1..(k - 1) : ~(IsControl(html[j]) /\ html[j].name = f.cfg.Name)

\* The element before the first control of the field is its label (the
\* legend for a group) when the field has one, and is not when it has none.
LabelBefore(html, f) ==
    \E k \in {FirstControl(html, f)} :
        \E e \in {html[k - 1]} :
            IF f.cfg.NoLabel \/ (f.cfg.Hidden /\ f.suffix # "Chosen")
            THEN ~(e.tag \in {"label", "legend"} /\ e.name = f.cfg.Name)
            ELSE /\ e.tag = (IF html[k].type \in {"radio", "checkbox"} /\ f.suffix = "Chosen"
                             THEN "legend" ELSE "label")
                 /\ e.name = f.cfg.Name
                 /\ e.text = escapeHTML(generateLabel(f.cfg, f))

\* C18: a successful Render returns one form element, opened first and
\* closed last, that holds one control (or one select, radio or checkbox
\* group) for each exported, non-skipped field of a supported kind that is
\* not a Choices field, in the order of declaration, each with its label
\* right before it unless the label is suppressed; a Choices field gets
\* no control.
C18_DeclarationOrder ==
    (Rendered /\ rret.err = NoErr) =>
        /\ Len(SelectSeq(rret.html, IsForm)) = 2
        /\ rret.html[1].tag = "form" /\ rret.html[Len(rret.html)].tag = "/form"
        /\ ControlNames(rret.html) = DeclaredNames(typ)
        /\ \A i \in Fields : HasControl(typ[i]) => LabelBefore(rret.html, typ[i])
        /\ \A i \in Fields : typ[i].suffix = "Choices" =>
              \A k \in 1..Len(rret.html) :
                  IsControl(rret.html[k]) => rret.html[k].name # typ[i].cfg.Name

\* A form of three controls or more with a group, a label, and a Choices
\* field that has none.
C18_Witness ==
    /\ Rendered /\ rret.err = NoErr
    /\ Len(ControlNames(rret.html)) >= 3
    /\ \E k \in 1..Len(rret.html) : rret.html[k].tag = "legend"
    /\ \E k \in 1..Len(rret.html) : rret.html[k].tag = "label" /\ IsControl(rret.html[k + 1])
    /\ \E i \in Fields : typ[i].suffix = "Choices"

----------------------------------------------------------------------------
(* Two calls at once                                                       *)

\* The two calls in progress.
Callers == {1, 2}

\* The struct types the concurrent calls are made on.
ConcTypes == {1, 3}

\* The input maps of the concurrent calls: the empty map and the maps with
\* one key.
ConcInputs(t) == {m \in Inputs(t) : Cardinality(DOMAIN m) <= 1}

\* A call before its first step: Render(rec) or Bind(values, &rec), with
\* the locals of its activation.  Each caller has its own struct, and the
\* pointers its Bind allocates are its own.
Call(kind, values, r, id) ==
    [kind |-> kind, values |-> values, rec0 |-> r, id0 |-> id,
     pc |-> 0, rec |-> r, id |-> id, pairs |-> [b \in {} |-> 0],
     html |-> <<>>, err |-> NoErr, at |-> 0, done |-> FALSE]

CallsOn(n) ==
    {Call("Render", NoValues, r, Len(StructType(n)) + 1) : r \in Start(n)}
    \cup {Call("Bind", values, r, Len(StructType(n)) + 1) :
            values \in ConcInputs(StructType(n)), r \in Start(n)}

InitConc ==
    /\ \E n \in ConcTypes : typ = StructType(n) /\ run \in [Callers -> CallsOn(n)]
    /\ rec = ZeroRecord(typ)
    /\ nextId = Len(typ) + 1
    /\ calls = 0
    /\ op = "none"
    /\ pre = rec
    /\ shown = rec
    /\ input = NoValues
    /\ ret = NoBind
    /\ rret = NoRender
    /\ form = NoValues
    /\ given = <<>>
    /\ merged = ConsolidateOptions(<<>>)
    /\ arg = NoCall
    /\ panicked = FALSE
    /\ veeTag = <<>>
    /\ parsed = NoConfig

Builder_shared(p) == 1

\* var html strings.Builder: the buffer of the call p is a local of its
\* own activation.
Builder(p) == p

\* The call p returns err.
Return(c, err, at) == [c EXCEPT !.err = err, !.at = at, !.done = TRUE]

\* What the step of caller p makes of the calls: its own locals become c,
\* and els is appended to its buffer (emptied when the call fails).
Stepped(p, c, els) ==
    [q \in Callers |->
        [(IF q = p THEN c ELSE run[q])
         EXCEPT !.html = IF q = Builder(p)
                         THEN (IF c.err # NoErr THEN <<>> ELSE Emit(run[q].html, els))
                         ELSE run[q].html]]

\* The prologue of the call of p: for Render the pass over the hidden
\* fields, for both the pair validation, and for Render the form tag.
StepStart(p) ==
    /\ ~run[p].done /\ run[p].pc = 0
    /\ \E v \in validateChoicesChosen(typ, run[p].rec) :
         \E c \in {run[p]} :
           run' = IF c.kind = "Render" /\ hiddenPass(typ, 1) # NoErr
                  THEN Stepped(p, Return(c, hiddenPass(typ, 1), 0), <<>>)
                  ELSE IF v.err # NoErr THEN Stepped(p, Return(c, v.err, 0), <<>>)
                  ELSE Stepped(p, [c EXCEPT !.pairs = v.pairs, !.pc = 1],
                               IF c.kind = "Render"
                               THEN <<formTag(ConsolidateOptions(<<>>))>> ELSE <<>>)
    /\ UNCHANGED <<typ, rec, nextId, calls, op, pre, shown, input, ret, rret, form, given,
                   merged, arg, panicked, veeTag, parsed>>

\* One turn of the loop over the fields in the call of p.
StepField(p) ==
    /\ ~run[p].done /\ run[p].pc \in 1..Len(typ)
    /\ \E c \in {run[p]} : \E i \in {c.pc} :
         run' =
           IF c.kind = "Render"
           THEN \* x is what the body of the loop does for field i
                LET x == renderField(typ[i], c.rec[i], c.pairs, ConsolidateOptions(<<>>))
                IN  IF x.err # NoErr THEN Stepped(p, Return(c, x.err, i), <<>>)
                    ELSE Stepped(p, [c EXCEPT !.pc = i + 1], x.els)
           ELSE LET b == bindField(c.values, typ[i], c.rec[i], c.id, c.pairs, FALSE)
                IN  IF b.err # NoErr
                    THEN [run EXCEPT ![p] = Return([c EXCEPT !.rec[i] = b.val, !.id = b.id],
                                                   b.err, i)]
                    ELSE [run EXCEPT ![p] = [c EXCEPT !.rec[i] = b.val, !.id = b.id,
                                                      !.pc = i + 1]]
    /\ UNCHANGED <<typ, rec, nextId, calls, op, pre, shown, input, ret, rret, form, given,
                   merged, arg, panicked, veeTag, parsed>>

\* The return after the loop: Render closes the form.
StepReturn(p) ==
    /\ ~run[p].done /\ run[p].pc = Len(typ) + 1
    /\ \E c \in {run[p]} :
         run' = IF c.kind = "Render"
                THEN Stepped(p, [c EXCEPT !.done = TRUE],
                             <<El("/form", "", "", FALSE, <<>>, FALSE, <<>>, <<>>)>>)
                ELSE [run EXCEPT ![p] = [c EXCEPT !.done = TRUE]]
    /\ UNCHANGED <<typ, rec, nextId, calls, op, pre, shown, input, ret, rret, form, given,
                   merged, arg, panicked, veeTag, parsed>>

NextConc == \E p \in Callers : StepStart(p) \/ StepField(p) \/ StepReturn(p)

SpecConc == InitConc /\ [][NextConc]_vars

\* What the call c returns and leaves in its struct, and what it can
\* return and leave when it runs alone from its arguments.
Outcome(c) ==
    IF c.kind = "Render" THEN [err |-> c.err, html |-> c.html, rec |-> c.rec]
    ELSE [err |-> c.err, at |-> c.at, rec |-> c.rec]

Alone(c) ==
    IF c.kind = "Render"
    THEN {[err |-> x.err, html |-> x.html, rec |-> c.rec0] :
            x \in {Render(typ, c.rec0, <<>>, v) : v \in validateChoicesChosen(typ, c.rec0)}}
    ELSE {[err |-> b.err, at |-> b.at, rec |-> b.rec] :
            b \in {Bind(c.values, typ, c.rec0, c.id0, v, FALSE) :
                     v \in validateChoicesChosen(typ, c.rec0)}}

\* C19: of two calls on their own structs, interleaved between the steps
\* of their loops, each returns what it returns alone and leaves its
\* struct as it leaves it alone, and no step of one call changes anything
\* of the other.
C19_CallsIndependent ==
    []( \A p \in Callers : run[p].done => Outcome(run[p]) \in Alone(run[p]) )
    /\ [][\E p \in Callers : \A q \in Callers \ {p} : run'[q] = run[q]]_vars

\* Both calls are in their loops at once: a Render that has written a
\* control and a Bind that has set a field, neither returned yet.
C19_Witness ==
    /\ run # <<>>
    /\ ~run[1].done /\ ~run[2].done
    /\ run[1].kind = "Render" /\ run[1].pc \in 2..Len(typ) /\ Len(run[1].html) > 2
    /\ run[2].kind = "Bind" /\ run[2].pc \in 2..Len(typ) /\ run[2].rec # run[2].rec0

----------------------------------------------------------------------------
(* Properties of the binding of durations                                  *)

\* The decimal numbers supplied for duration fields, in hundredths.
Hundredths(s) ==
    CASE s = STR_42 -> 4200
      [] s = STR_2 -> 200
      [] s = STR_1p5 -> 150
      [] s = STR_0p5 -> 50
      [] OTHER -> 0 - 1

\* A duration field for which the last Bind read a decimal number.
ReadsDecimal(i) ==
    /\ typ[i].kind = "duration" /\ Live(typ[i]) /\ Processed(i)
    /\ ~NoFormData(input, typ[i].cfg.Name)
    /\ Hundredths(input[typ[i].cfg.Name][1]) >= 0

\* C20 as stated: a duration field bound from the decimal number v holds
\* v times its unit exactly, the fraction of v included (0.5 with unit m is
\* 30 seconds).
C20_ScaledExactly ==
    \A i \in Fields :
        ReadsDecimal(i) =>
            actualVal(typ[i], rec[i]) * 100
                = Hundredths(input[typ[i].cfg.Name][1]) * UnitOf(DurationUnits(typ[i].cfg))

\* Bind read 1.5 for a field in seconds and stored one second.
C20_Witness ==
    \E i \in Fields :
        /\ ReadsDecimal(i)
        /\ input[typ[i].cfg.Name][1] = STR_1p5
        /\ DurationUnits(typ[i].cfg) = "s"
        /\ rec[i] = Second

----------------------------------------------------------------------------
(* Properties of the rendering of durations, optional and zero fields      *)

\* The control Render wrote for the field.
ControlOf(html, f) == html[FirstControl(html, f)]

\* A visible field of the kind that the last Render wrote a control for.
Visible(i, kinds) ==
    /\ Rendered /\ rret.err = NoErr
    /\ HasControl(typ[i]) /\ typ[i].suffix = "" /\ ~typ[i].cfg.Hidden
    /\ typ[i].kind \in kinds

\* q is d divided by u with the remainder dropped toward zero.
Truncated(q, d, u) ==
    IF d >= 0 THEN q * u <= d /\ d < (q + 1) * u
    ELSE (q - 1) * u < d /\ d <= q * u

\* C21: the control of a duration that is not zero carries the number of
\* whole units in it, the remainder dropped toward zero (so "0" for a
\* duration shorter than a unit); the control of a zero duration carries
\* no value.
C21_WholeUnits ==
    \A i \in Fields :
        Visible(i, {"duration"}) =>
            \E e \in {ControlOf(rret.html, typ[i])}, d \in {actualVal(typ[i], shown[i])} :
                /\ e.type = "number"
                /\ d = 0 => ~e.has
                /\ (d # 0 /\ NotNil(typ[i], shown[i])) =>
                      /\ e.has
                      /\ \E n \in {ParseFloat(e.value)} :
                            /\ n.ok /\ n.val.k = "num" /\ n.val.h % 100 = 0
                            /\ Truncated(n.val.h \div 100, d, UnitOf(DurationUnits(typ[i].cfg)))

\* Half a millisecond in a field of unit ms is written as 0, and minus
\* one and a half seconds in a field of seconds as -1.
C21_Witness ==
    /\ \E i \in Fields :
         /\ Visible(i, {"duration"}) /\ shown[i] = 5 /\ DurationUnits(typ[i].cfg) = "ms"
         /\ ControlOf(rret.html, typ[i]).has /\ ControlOf(rret.html, typ[i]).value = STR_0
    /\ \E i \in Fields :
         /\ Visible(i, {"duration"}) /\ shown[i] = 0 - (Second + 500 * Millisecond)
         /\ ControlOf(rret.html, typ[i]).value = STR_m1


\* A pointer field of OptionalForm: nil, a pointer to the zero value, a
\* pointer to the value v.
Optional(i, kind, v) == {NilPtr(kind), Ptr(i, ZeroOf(kind)), Ptr(i, v)}

StartOptional(n) ==
    {<<a, b, c, d, e, f, g, h, j>> :
        a \in Optional(1, "string", STR_amp), b \in Optional(2, "int", 0 - 7),
        c \in {NilPtr("int64"), Ptr(3, 0)}, d \in {NilPtr("float64"), Ptr(4, FNum(0))},
        e \in Optional(5, "bool", TRUE),
        f \in Optional(6, "time", Time(2024, 3, 5, 14, 30, 0, 0)),
        g \in Optional(7, "duration", 90 * Second),
        h \in {ZeroTime, Time(2024, 3, 5, 0, 0, 0, 0)},
        j \in {0, 90 * Second}}

\* Render of a struct of optional fields.
InitOptional == InitOf({25}, StartOptional)

\* The struct is rendered once.
DoRenderOnce == op = "none" /\ DoRender

NextOptional == DoRenderOnce

SpecOptional == InitOptional /\ [][NextOptional]_vars

\* The record with every nil pointer replaced by a pointer to the zero
\* value of its kind.
PointZero(t, r) ==
    [i \in 1..Len(t) |-> IF t[i].ptr /\ r[i].nil THEN Ptr(i, ZeroOf(t[i].kind)) ELSE r[i]]

\* The text of the value attribute for the zero value of a kind.
ZeroText(kind) ==
    CASE kind = "string" -> <<>>
      [] kind = "bool" -> <<"t", "r", "u", "e">>
      [] OTHER -> <<"0">>

\* C22: a time or duration control carries a value exactly when the field
\* is not a nil pointer and its value is not zero; a nil pointer to a
\* string, an integer, a float or a bool is written as the zero value is
\* (value="", value="0", unchecked), and the document for a record is the
\* document for the record with its nil pointers pointing to zero values.
C22_ValueEmission ==
    /\ \A i \in Fields :
         Visible(i, {"time", "duration"}) =>
             (ControlOf(rret.html, typ[i]).has <=>
                 /\ NotNil(typ[i], shown[i])
                 /\ actualVal(typ[i], shown[i]) # ZeroOf(typ[i].kind))
    /\ \A i \in Fields :
         (Visible(i, {"string", "int", "int64", "float64", "bool"})
             /\ typ[i].ptr /\ shown[i].nil) =>
             \E e \in {ControlOf(rret.html, typ[i])} :
                 e.has /\ e.value = ZeroText(typ[i].kind) /\ ~e.on
    /\ (Rendered /\ rret.err = NoErr) =>
          \E v \in validateChoicesChosen(typ, PointZero(typ, shown)) :
              rret.html = Render(typ, PointZero(typ, shown), given, v).html

\* A form whose nil *string, *int, *float64 and *bool are written as zero
\* values, whose nil *time.Time and whose zero time.Time carry no value,
\* and whose *time.Duration carries one.
C22_Witness ==
    /\ Rendered /\ rret.err = NoErr /\ typ = OptionalForm
    /\ shown[1].nil /\ shown[2].nil /\ shown[4].nil /\ shown[5].nil /\ shown[6].nil
    /\ shown[8] = ZeroTime /\ ~ControlOf(rret.html, typ[8]).has
    /\ ~shown[7].nil /\ ControlOf(rret.html, typ[7]).has

----------------------------------------------------------------------------
(* Properties of the rendering of a selection                              *)

\* The positions in the document of the items written for a Chosen field:
\* the options of its select, or the inputs of its group.
ItemsOf(html, f) ==
    {k \in 1..Len(html) :
        \E s \in {FirstControl(html, f)} :
            IF html[s].tag = "select"
            THEN /\ k > s /\ html[k].tag = "option"
                 /\ \A j \in (s + 1)..k : html[j].tag # "/select"
            ELSE /\ html[k].tag = "input" /\ html[k].name = f.cfg.Name
                 /\ html[k].type \in {"radio", "checkbox"}}

\* The position of item n (from 0) among the positions P.
ItemAt(P, n) == CHOOSE k \in P : Cardinality({j \in P : j < k}) = n

\* The text shown for the item at position k: of the option, or of the
\* label that follows the input.
ItemText(html, k) == IF html[k].tag = "option" THEN html[k].text ELSE html[k + 1].text

\* The decimal text of the first indices.
IndexText == <<STR_0, STR_1, STR_2>>

\* The indices chosen in field i of the record rendered.
ChosenSet(i) ==
    IF typ[i].kind = "ints" THEN {shown[i][k] : k \in 1..Len(shown[i])} ELSE {shown[i]}

\* C23: for a valid pair Render writes one item for each choice, with the
\* values 0, 1, ... and the choices as texts in their order, item n marked
\* exactly when n is a chosen index (one item for a single-select); radio
\* buttons asked for a []int Chosen make Render fail.
C23_SelectionMirrorsPair ==
    /\ (Rendered /\ rret.err = NoErr) =>
          \A i \in Fields :
              (Live(typ[i]) /\ typ[i].suffix = "Chosen") =>
                  \E P \in {ItemsOf(rret.html, typ[i])},
                     choices \in {shown[Pos(typ[i].base, "Choices")]} :
                      /\ Cardinality(P) = Len(choices)
                      /\ \A n \in 0..(Len(choices) - 1) :
                           \E e \in {rret.html[ItemAt(P, n)]} :
                               /\ e.value = IndexText[n + 1]
                               /\ ItemText(rret.html, ItemAt(P, n)) = escapeHTML(choices[n + 1])
                               /\ e.on <=> n \in ChosenSet(i)
                      /\ typ[i].kind = "int" =>
                           Cardinality({k \in P : rret.html[k].on}) = 1
    /\ (Rendered /\ RadioDefect) => rret.err # NoErr

\* A checkbox group of three choices with the first and the third checked
\* beside a select with its second option selected.
C23_Witness ==
    /\ Rendered /\ rret.err = NoErr /\ typ = ChoiceForm
    /\ shown[4] = <<0, 2>> /\ shown[2] = 1
    /\ \E P \in {ItemsOf(rret.html, typ[4])} :
         /\ rret.html[ItemAt(P, 0)].on /\ ~rret.html[ItemAt(P, 1)].on
         /\ rret.html[ItemAt(P, 2)].on
    /\ \E P \in {ItemsOf(rret.html, typ[2])} : rret.html[ItemAt(P, 1)].on

----------------------------------------------------------------------------
(* parseVeeTag, on the text of the tag                                     *)

\* strings.Split(s, sep) for a separator of one character.
RECURSIVE Split(_, _)
Split(s, sep) ==
    IF IndexOf(s, sep) = 0 THEN <<s>>
    ELSE <<SubSeq(s, 1, IndexOf(s, sep) - 1)>>
         \o Split(SubSeq(s, IndexOf(s, sep) + 1, Len(s)), sep)

\* strings.HasPrefix(s, c) for a prefix of one character.
StartsWith(s, c) == Len(s) > 0 /\ s[1] = c

\* strings.TrimSpace, for the one white space of the tags: the blank.
RECURSIVE TrimSpace(_)
TrimSpace(s) ==
    IF Len(s) > 0 /\ s[1] = " " THEN TrimSpace(Tail(s))
    ELSE IF Len(s) > 0 /\ s[Len(s)] = " " THEN TrimSpace(SubSeq(s, 1, Len(s) - 1))
    ELSE s

\* The value with its surrounding single quotes removed, when it has both.
Unquote_all(value) ==
    IF Len(value) >= 1 /\ value[1] = "'" THEN SubSeq(value, 2, Len(value) - 1) ELSE value

Unquote(value) ==
    IF Len(value) >= 2 /\ value[1] = "'" /\ value[Len(value)] = "'"
    THEN SubSeq(value, 2, Len(value) - 1)
    ELSE value

STR_nolabel == <<"n", "o", "l", "a", "b", "e", "l">>
STR_hidden == <<"h", "i", "d", "d", "e", "n">>

\* The body of the loop over parts for one part.
parsePart(config, part0) ==
    LET part  == TrimSpace(part0)
        key   == TrimSpace(SubSeq(part, 1, IndexOf(part, ":") - 1))
        value == TrimSpace(SubSeq(part, IndexOf(part, ":") + 1, Len(part)))
    IN  IF part = <<>> THEN config
        ELSE IF IndexOf(part, ":") # 0
        THEN [config EXCEPT !.Attributes = Put(config.Attributes, key, Unquote(value))]
        ELSE IF part = STR_nolabel THEN [config EXCEPT !.NoLabel = TRUE]
        ELSE IF part = STR_hidden THEN [config EXCEPT !.Hidden = TRUE]
        ELSE [config EXCEPT !.Attributes = Put(config.Attributes, part, <<>>)]

RECURSIVE parseParts(_, _)
parseParts(config, parts) ==
    IF Len(parts) = 0 THEN config
    ELSE parseParts(parsePart(config, Head(parts)), Tail(parts))

\* strcase.ToSnake of the declared names.
ToSnake(fieldName) ==
    CASE fieldName = "FirstName" -> <<"f", "i", "r", "s", "t", "_", "n", "a", "m", "e">>
      [] OTHER -> <<fieldName>>

NamePart_any(parts) ==
    IF \E k \in 1..Len(parts) : StartsWith(parts[k], "$")
    THEN CHOOSE k \in 1..Len(parts) :
            StartsWith(parts[k], "$") /\ \A j \in 1..(k - 1) : ~StartsWith(parts[j], "$")
    ELSE 1

\* The part that may override the name: parts[0].
NamePart(parts) == 1

parseVeeTag(tag, fieldName) ==
    LET parts == Split(tag, ",")
        k == NamePart(parts)
    IN  IF tag = <<>> THEN [NoConfig EXCEPT !.Name = ToSnake(fieldName)]
        ELSE IF tag = <<"-">> THEN [NoConfig EXCEPT !.Skip = TRUE]
        ELSE IF StartsWith(parts[k], "$")
        THEN parseParts([NoConfig EXCEPT !.Name = Tail(parts[k])], Without(parts, k))
        ELSE parseParts([NoConfig EXCEPT !.Name = ToSnake(fieldName)], parts)

\* The segments the tags are made of.
Segments ==
    {<<>>, <<"-">>, <<"$">>, <<"$", "n">>, <<" ", "$", "n">>, <<"$", "n", ":", "1">>,
     <<"a">>, <<" ", "a", " ">>, <<"b">>, STR_nolabel, STR_hidden,
     <<"a", ":", "1">>, <<"a", ":", "2">>, <<" ", "a", " ", ":", " ", "1", " ">>,
     <<"a", ":">>, <<":", "1">>, <<"a", ":", "1", ":", "2">>,
     <<"a", ":", "'", "1", "'">>, <<"a", ":", "'">>, <<"a", ":", "'", "'">>,
     <<"a", ":", "'", " ", "1", "'">>, <<"a", ":", "'", "1">>, <<"2", "'">>}

\* The most segments of a tag.
MaxSegments == 3

RECURSIVE Join(_)
Join(segs) ==
    IF Len(segs) = 0 THEN <<>>
    ELSE IF Len(segs) = 1 THEN segs[1]
    ELSE segs[1] \o <<",">> \o Join(Tail(segs))

Tags == {Join(segs) : segs \in UNION {[1..n -> Segments] : n \in 1..MaxSegments}}

\* The declared name of the field the tag is on.
DeclaredName == "FirstName"

InitTag ==
    /\ typ = Empty
    /\ rec = <<>>
    /\ nextId = 1
    /\ calls = 0
    /\ op = "none"
    /\ pre = rec
    /\ shown = rec
    /\ input = NoValues
    /\ ret = NoBind
    /\ rret = NoRender
    /\ form = NoValues
    /\ given = <<>>
    /\ merged = ConsolidateOptions(<<>>)
    /\ arg = NoCall
    /\ panicked = FALSE
    /\ run = <<>>
    /\ veeTag \in Tags
    /\ parsed = NoConfig

\* parseVeeTag(veeTag, field.Name)
DoParse ==
    /\ op = "none"
    /\ parsed' = parseVeeTag(veeTag, DeclaredName)
    /\ op' = "parseVeeTag"
    /\ UNCHANGED <<typ, rec, nextId, calls, pre, shown, input, ret, rret, form, given,
                   merged, arg, panicked, run, veeTag>>

NextTag == DoParse

SpecTag == InitTag /\ [][NextTag]_vars

Parsed == op = "parseVeeTag"

\* The text of the tag before its first comma: its first segment.
FirstSegment ==
    IF IndexOf(veeTag, ",") = 0 THEN veeTag ELSE SubSeq(veeTag, 1, IndexOf(veeTag, ",") - 1)

\* C24: an empty tag gives the snake_case name and nothing else; the tag
\* "-" gives Skip and nothing else, and no other tag skips; otherwise the
\* name is the text after "$" of the first segment when that segment
\* starts with "$", and the snake_case name if not, whatever the later
\* segments are.
C24_NameAndSkip ==
    Parsed =>
        /\ veeTag = <<>> => parsed = [NoConfig EXCEPT !.Name = ToSnake(DeclaredName)]
        /\ veeTag = <<"-">> => parsed = [NoConfig EXCEPT !.Skip = TRUE]
        /\ parsed.Skip <=> veeTag = <<"-">>
        /\ veeTag \notin {<<>>, <<"-">>} =>
              parsed.Name = IF StartsWith(FirstSegment, "$") THEN Tail(FirstSegment)
                            ELSE ToSnake(DeclaredName)

\* The tag a,$n keeps the derived name, and $n becomes an attribute.
C24_Witness ==
    /\ Parsed
    /\ veeTag = <<"a", ",", "$", "n">>
    /\ parsed.Name = ToSnake(DeclaredName)
    /\ DOMAIN parsed.Attributes = {<<"a">>, <<"$", "n">>}

\* The segments of the tag that are not its name: all of them, but for a
\* first segment that starts with "$"; none for the tags "" and "-".
AttributeSegments ==
    IF veeTag \in {<<>>, <<"-">>} THEN <<>>
    ELSE IF StartsWith(FirstSegment, "$") THEN Tail(Split(veeTag, ","))
    ELSE Split(veeTag, ",")

\* The key a segment is about: the text before its first colon, or the
\* whole of a bare word, without the blanks around it.
KeyOf(seg) ==
    IF IndexOf(TrimSpace(seg), ":") = 0 THEN TrimSpace(seg)
    ELSE TrimSpace(SubSeq(TrimSpace(seg), 1, IndexOf(TrimSpace(seg), ":") - 1))

\* A text without the pair of single quotes that encloses it.
Bare(v) ==
    IF Len(v) >= 2 /\ v[1] = "'" /\ v[Len(v)] = "'" THEN SubSeq(v, 2, Len(v) - 1) ELSE v

\* The value a segment gives its key: the text after its first colon,
\* without the blanks and then the quotes around it; empty for a bare word.
ValueOf(seg) ==
    IF IndexOf(TrimSpace(seg), ":") = 0 THEN <<>>
    ELSE Bare(TrimSpace(SubSeq(TrimSpace(seg), IndexOf(TrimSpace(seg), ":") + 1,
                               Len(TrimSpace(seg)))))

\* The positions of the segments that make an attribute, the bare words in
\* flags set aside.
AttributeAt(flags) ==
    {k \in 1..Len(AttributeSegments) :
        TrimSpace(AttributeSegments[k]) \notin flags \cup {<<>>}}

\* The attributes by the last segment for each key.
LastWins(flags) ==
    [key \in {KeyOf(AttributeSegments[k]) : k \in AttributeAt(flags)} |->
        ValueOf(AttributeSegments[
            CHOOSE k \in AttributeAt(flags) :
                /\ KeyOf(AttributeSegments[k]) = key
                /\ \A j \in AttributeAt(flags) :
                      KeyOf(AttributeSegments[j]) = key => j <= k])]

\* C25 as stated: every segment after the split at the commas gives its
\* key the value after its first colon, trimmed and unquoted, or the empty
\* string when it is a bare word, the last segment for a key winning.
C25_EveryWordIsAKey == Parsed => parsed.Attributes = LastWins({})

\* C25: as above for every segment but the bare words nolabel and hidden,
\* which set NoLabel and Hidden and make no attribute; a comma inside
\* single quotes still ends the segment.
C25_AttributesLastWins ==
    Parsed =>
        /\ parsed.Attributes = LastWins({STR_nolabel, STR_hidden})
        /\ parsed.NoLabel <=>
              \E k \in 1..Len(AttributeSegments) : TrimSpace(AttributeSegments[k]) = STR_nolabel
        /\ parsed.Hidden <=>
              \E k \in 1..Len(AttributeSegments) : TrimSpace(AttributeSegments[k]) = STR_hidden

\* The tag a:2,hidden,a:'1 gives a the value '1 of the later segment with
\* its lone quote, sets Hidden and has no attribute hidden.
C25_Witness ==
    /\ Parsed
    /\ veeTag = <<"a", ":", "2", ",">> \o STR_hidden \o <<",", "a", ":", "'", "1">>
    /\ parsed.Hidden
    /\ DOMAIN parsed.Attributes = {<<"a">>}
    /\ parsed.Attributes[<<"a">>] = <<"'", "1">>

----------------------------------------------------------------------------
(* Properties of Bind on a struct whose pairs are out of order              *)

\* A well-typed pair of the record r has no choices.
NoChoices(r) == \E b \in Paired : WellTyped(b) /\ Len(r[Pos(b, "Choices")]) = 0

\* The input of the last Bind offers field i an index within its choices
\* as they were before the call.
OffersValidIndex(i) ==
    /\ typ[i].suffix = "Chosen" /\ typ[i].base \in Paired
    /\ Exists(input, typ[i].cfg.Name) /\ Len(input[typ[i].cfg.Name]) > 0
    /\ input[typ[i].cfg.Name][1] \in DOMAIN Indices
    /\ Indices[input[typ[i].cfg.Name][1]] \in 0..(Len(pre[Pos(typ[i].base, "Choices")]) - 1)

\* C26: a Bind into a struct that has a pair without choices or with a
\* chosen index out of range returns an error of the pair validation,
\* before the loop over the fields, and leaves every field as it was,
\* whatever the input holds.
C26_ValidatesTargetFirst ==
    (Bound /\ (NoChoices(pre) \/ OutOfRange(pre) # {})) =>
        /\ ret.err # NoErr /\ ret.at = 0
        /\ ret.err \in {v.err : v \in validateChoicesChosen(typ, pre)}
        /\ rec = pre

\* A Bind that failed on the index the struct held although the input
\* offered an index within the choices for that very field.
C26_Witness ==
    /\ Bound /\ OutOfRange(pre) # {} /\ ret.err # NoErr /\ rec = pre
    /\ \E i \in Fields :
         /\ OffersValidIndex(i)
         /\ typ[i].kind = "int"
         /\ pre[i] \notin 0..(Len(pre[Pos(typ[i].base, "Choices")]) - 1)


\* The indices field i of the record r holds.
ChosenValues(r, i) == IF typ[i].kind = "ints" THEN Range(r[i]) ELSE {r[i]}

\* C27: from a struct whose chosen indices lie within its choices, every
\* chosen index, the one of an int and each of a []int, lies within
\* [0, len(choices)) after every Bind, whether the call returned an error
\* or not.
C27_IndicesStayInRange ==
    \A i \in Fields :
        (typ[i].suffix = "Chosen" /\ typ[i].base \in Paired /\ WellTyped(typ[i].base)) =>
            \A x \in ChosenValues(rec, i) :
                x \in 0..(Len(rec[Pos(typ[i].base, "Choices")]) - 1)

\* The second Bind in a row set the int Chosen to another index and then
\* failed at the []int Chosen, which keeps its indices.
C27_Witness ==
    /\ Bound /\ calls = 2 /\ Paired # {}
    /\ \E i, j \in Fields :
         /\ typ[i].suffix = "Chosen" /\ typ[i].kind = "int" /\ rec[i] # pre[i]
         /\ typ[j].suffix = "Chosen" /\ typ[j].kind = "ints" /\ ret.at = j
         /\ ret.err # NoErr /\ rec[j] = pre[j] /\ Len(rec[j]) > 0

----------------------------------------------------------------------------
(* Bind twice with the same input                                          *)

\* Value equality of two values of a field: pointers are compared by what
\* they point to, everything else by the value held.
SameValue(f, a, b) ==
    IF f.ptr THEN a.nil = b.nil /\ (~a.nil => a.v = b.v) ELSE a = b

\* The step is a call of Bind with the input map of the call before it, on
\* the struct that call left, and that call returned no error.
Repeated ==
    /\ Bound /\ ret.err = NoErr
    /\ op' = "Bind" /\ calls' = calls + 1 /\ input' = input

\* C28: Bind is idempotent: when a call of Bind has returned no error, the
\* same call repeated at once on the same struct with the same input map
\* returns no error and leaves every field value-equal to what the first
\* call left, pointers being compared by the value they point to.
C28_BindIdempotent ==
    [][Repeated =>
          /\ ret'.err = NoErr
          /\ \A i \in Fields : SameValue(typ[i], rec'[i], rec[i])]_vars

\* The second of two calls has returned no error and left every field
\* value-equal to what the first left, the input map holds data that the
\* first call stored, and a pointer field holds a newly allocated value
\* equal to the one it held.
C28_Witness ==
    /\ Bound /\ calls = 2 /\ ret.err = NoErr
    /\ rec # ZeroRecord(typ)
    /\ \A i \in Fields : SameValue(typ[i], rec[i], pre[i])
    /\ \E i \in Fields :
         /\ typ[i].ptr /\ ~rec[i].nil /\ ~pre[i].nil
         /\ rec[i].id # pre[i].id /\ rec[i].v = pre[i].v
         /\ rec[i].v # ZeroOf(typ[i].kind)

----------------------------------------------------------------------------
(* The round trip of hidden fields                                         *)

\* The records of HiddenForm that are rendered, submitted and bound again.
StartHidden(n) ==
    {<<a, b, c, d, e, f, g>> :
        a \in {<<>>, STR_amp}, b \in {0, 42}, c \in {0, 0 - 7},
        d \in {FNum(0), FNum(150)}, e \in BOOLEAN,
        f \in {0, Millisecond \div 10}, g \in {ZeroTime, Time(2023, 12, 25, 10, 30, 0, 0)}}

InitHidden == InitOf({26}, StartHidden)

\* The struct is rendered once, and the form is submitted and bound once.
NextHidden == DoRenderOnce \/ DoSubmit \/ DoNew \/ DoBindForm

SpecHidden == InitHidden /\ [][NextHidden]_vars

\* The hidden fields of the supported scalar kinds.
HiddenScalars == {i \in Fields : typ[i].cfg.Hidden /\ ~typ[i].ptr /\ typ[i].kind \in Supported}

\* C29 as stated: for a hidden field of any supported scalar kind, Bind of
\* the name and value Render wrote for it into a new record of the type
\* returns no error and yields the field's value.
C29_HiddenRoundTrip ==
    (TripDone /\ HiddenScalars # {}) =>
        /\ ret.err = NoErr
        /\ \A i \in HiddenScalars : Equal(typ[i], rec[i], shown[i])

\* The round trip of a record whose hidden bool is false, whose hidden
\* duration is 100 microseconds and whose hidden time is 25 December 2023
\* 10:30 UTC: Bind has stored true and 100000 seconds and returns the
\* parse error for the time, which it leaves at zero; the string, the
\* integers and the float are the ones rendered.
C29_Witness ==
    /\ TripDone /\ HiddenScalars # {}
    /\ \E i, j, k \in HiddenScalars :
         /\ typ[i].kind = "bool" /\ shown[i] = FALSE /\ rec[i] = TRUE
         /\ typ[j].kind = "duration" /\ shown[j] = Millisecond \div 10 /\ rec[j] = 100000 * Second
         /\ typ[k].kind = "time" /\ shown[k] # ZeroTime /\ rec[k] = ZeroTime
         /\ ret.err # NoErr /\ ret.at = k
    /\ \A i \in HiddenScalars :
         typ[i].kind \in {"string", "int", "int64", "float64"} => rec[i] = shown[i]
    /\ \E i \in HiddenScalars : typ[i].kind = "string" /\ shown[i] = STR_amp

----------------------------------------------------------------------------
(* Determinism                                                             *)

\* What a call of Render on the struct last rendered, with the options it
\* was given, may return: one result for every order in which the pair
\* validation may range over its maps.
RenderOutcomes ==
    {Render(typ, shown, given, v) : v \in validateChoicesChosen(typ, shown)}

\* What a call of Bind with the input map last bound, on the struct as it
\* was before that call, may return and leave, on a build with the
\* float conversion sat.
BindOutcomes(sat) ==
    {[err |-> b.err, rec |-> b.rec] :
        b \in {Bind(input, typ, pre, IdBefore, v, sat) : v \in validateChoicesChosen(typ, pre)}}

\* C30 as stated: Render and Bind are deterministic: for a fixed record,
\* options and input map every call returns the same markup or the same
\* error, and when several pairs of a record are malformed at once the
\* violation reported is always the same one.
C30_Deterministic ==
    /\ Rendered => \A x \in RenderOutcomes : x.err = rret.err /\ x.html = rret.html
    /\ Bound => \A sat \in BOOLEAN : \A x, y \in BindOutcomes(sat) : x = y

\* Render of a record with two malformed pairs has returned the violation
\* of one pair, and a call with the same record and options may return
\* the violation of the other; so may two calls of Bind.
C30_Witness ==
    /\ Rendered /\ rret.stage = "validate"
    /\ Cardinality(Paired) = 2
    /\ \E a, b \in Paired :
         /\ a # b
         /\ \E w \in {"Choices", "Chosen"} : Contains(rret.err, <<Fld(a, w)>>)
         /\ \E x \in RenderOutcomes :
              /\ x.err # NoErr /\ x.err # rret.err
              /\ \E w \in {"Choices", "Chosen"} : Contains(x.err, <<Fld(b, w)>>)
         /\ \E x, y \in {Bind(NoValues, typ, shown, nextId, v, FALSE) :
                            v \in validateChoicesChosen(typ, shown)} :
              x.err # NoErr /\ y.err # NoErr /\ x.err # y.err

====
